---------------------------- MODULE Spec2Model ----------------------------
(***************************************************************************)
(* CodeLens backend (src/backend/app.py): language detection, structure    *)
(* metrics, complexity scores, documentation rewriting, and the HTTP       *)
(* decorators (cache_response, handle_errors, validate_input) around       *)
(* analyze_code.                                                           *)
(*                                                                         *)
(* Python strings are modelled as sequences of one-character strings, so   *)
(* that `in`, str.count, str.split, str.strip and the regular expressions  *)
(* of the source are computed character by character.  The character      *)
(* U+0060 is written "backtick".                                           *)
(***************************************************************************)
EXTENDS Integers, Sequences, FiniteSets, TLC

VARIABLES
    \* ---- one run of the analysis functions on (filename, code)
    filename,        \* str: the file name ("" when absent)
    code,            \* str: the file content
    file_type,       \* detect_file_type's label
    ml_info,         \* detect_ml_code's result
    structure,       \* analyze_code_structure's result
    complexity,      \* the three complexity scores
    pc,              \* which function or step runs next
    \* ---- generate_documented_code
    i,                \* the scan index (0-based, as in the source)
    documented_lines, \* the output lines so far
    documented_code,  \* the returned text
    \* ---- the HTTP server
    cache,            \* the module-level cache dict, in insertion order
    now,              \* time.time(), in seconds
    ticks,            \* how many times the clock has advanced
    served,           \* how many requests have been answered
    delivered,        \* the exchanges so far: request, response, analysis run or not
    \* ---- analyze_function_purpose
    fn_name,          \* func_name
    fn_content,       \* func_content
    fn_purpose,       \* the returned description
    \* ---- the loop of calculate_cognitive_complexity
    line_no,          \* how many lines of code.splitlines() have been scanned
    nesting,          \* nesting_level
    cognitive,        \* complexity, the score so far
    \* ---- the function body extraction of generate_documented_code
    body_j,           \* j
    braces,           \* open_braces
    body_lines,       \* the lines added to func_body
    \* ---- concurrent requests in cache_response
    workers           \* per request thread: its position and its locals

avars == <<filename, code, file_type, ml_info, structure, complexity, pc>>
dvars == <<i, documented_lines, documented_code>>
hvars == <<cache, now, ticks, served, delivered>>
xvars == <<fn_name, fn_content, fn_purpose, line_no, nesting, cognitive,
           body_j, braces, body_lines, workers>>
vars == <<avars, dvars, hvars, xvars>>

---------------------------------------------------------------------------
(* Python str operations on sequences of characters.                       *)

Max(a, b) == IF a >= b THEN a ELSE b
Min(a, b) == IF a <= b THEN a ELSE b

Digits == {"0", "1", "2", "3", "4", "5", "6", "7", "8", "9"}
LowerLetters ==
    {"a", "b", "c", "d", "e", "f", "g", "h", "i", "j", "k", "l", "m",
     "n", "o", "p", "q", "r", "s", "t", "u", "v", "w", "x", "y", "z"}
UpperToLower ==
    [c \in {"A", "B", "C", "D", "E", "F", "G", "H", "I", "J", "K", "L", "M",
            "N", "O", "P", "Q", "R", "S", "T", "U", "V", "W", "X", "Y", "Z"} |->
        CASE c = "A" -> "a" [] c = "B" -> "b" [] c = "C" -> "c" [] c = "D" -> "d"
          [] c = "E" -> "e" [] c = "F" -> "f" [] c = "G" -> "g" [] c = "H" -> "h"
          [] c = "I" -> "i" [] c = "J" -> "j" [] c = "K" -> "k" [] c = "L" -> "l"
          [] c = "M" -> "m" [] c = "N" -> "n" [] c = "O" -> "o" [] c = "P" -> "p"
          [] c = "Q" -> "q" [] c = "R" -> "r" [] c = "S" -> "s" [] c = "T" -> "t"
          [] c = "U" -> "u" [] c = "V" -> "v" [] c = "W" -> "w" [] c = "X" -> "x"
          [] c = "Y" -> "y" [] c = "Z" -> "z"]
UpperLetters == DOMAIN UpperToLower

\* \s and \w of the re module, on the characters the model uses
IsSpace(c) == c \in {" ", "\n", "\t"}
IsWord(c) == c \in LowerLetters \cup UpperLetters \cup Digits \cup {"_"}

\* str.lower()
Lower(s) == [n \in 1..Len(s) |-> IF s[n] \in UpperLetters THEN UpperToLower[s[n]] ELSE s[n]]

\* s[i:i+len(p)] == p   (1-based i)
OccursAt(s, p, n) ==
    /\ n >= 1
    /\ n + Len(p) - 1 <= Len(s)
    /\ \A k \in 1..Len(p) : s[n + k - 1] = p[k]

\* p in s   (p is never empty in the source)
Contains(s, p) == \E n \in 1..Len(s) : OccursAt(s, p, n)

\* any(p in s for p in patterns)
ContainsAny(s, patterns) == \E p \in patterns : Contains(s, p)

\* s.startswith(p)
StartsWith(s, p) == OccursAt(s, p, 1)

\* s.count(p): non-overlapping occurrences, scanned left to right
RECURSIVE CountFrom(_, _, _)
CountFrom(s, p, n) ==
    IF n + Len(p) - 1 > Len(s) THEN 0
    ELSE IF OccursAt(s, p, n) THEN 1 + CountFrom(s, p, n + Len(p))
    ELSE CountFrom(s, p, n + 1)
Count(s, p) == CountFrom(s, p, 1)

\* s.split(c) for a one-character separator c
RECURSIVE SplitOn(_, _)
SplitOn(s, c) ==
    LET at == {n \in 1..Len(s) : s[n] = c}
    IN  IF at = {} THEN <<s>>
        ELSE LET n == CHOOSE j \in at : \A k \in at : j <= k
             IN  <<SubSeq(s, 1, n - 1)>> \o SplitOn(SubSeq(s, n + 1, Len(s)), c)

\* s.split('\n')
Split(s) == SplitOn(s, "\n")

\* s.splitlines(): as split('\n') but a trailing empty piece is no line
\* ("" has no line, "a\n" has one)
Splitlines(s) ==
    LET parts == Split(s)
    IN  IF parts[Len(parts)] = <<>> THEN SubSeq(parts, 1, Len(parts) - 1) ELSE parts

\* '\n'.join(lines)
RECURSIVE Join(_)
Join(lines) ==
    IF lines = <<>> THEN <<>>
    ELSE IF Len(lines) = 1 THEN lines[1]
    ELSE lines[1] \o <<"\n">> \o Join(Tail(lines))

\* s.lstrip(), s.strip()
LStrip(s) ==
    LET keep == {n \in 1..Len(s) : ~IsSpace(s[n])}
    IN  IF keep = {} THEN <<>>
        ELSE SubSeq(s, CHOOSE j \in keep : \A k \in keep : j <= k, Len(s))
Strip(s) ==
    LET keep == {n \in 1..Len(s) : ~IsSpace(s[n])}
    IN  IF keep = {} THEN <<>>
        ELSE SubSeq(s, CHOOSE j \in keep : \A k \in keep : j <= k,
                       CHOOSE j \in keep : \A k \in keep : j >= k)

\* sum(1 for x in seq if P(x))
CountIf(seq, P(_)) == Cardinality({n \in 1..Len(seq) : P(seq[n])})

---------------------------------------------------------------------------
(* Inputs of the analysis functions.                                       *)

\* the longest content has MaxLines lines
MaxLines == 2

\* the lines contents are made of
AnalyzeLines ==
    { <<>>,
      <<"K","=","1">>,
      <<"i","m","p","o","r","t"," ","t","e","n","s","o","r","f","l","o","w"," ","a","s"," ","t","f">>,
      <<"m","o","d","e","l",".","f","i","t","(","x",","," ","y",")">>,
      <<"#","i","n","c","l","u","d","e"," ","<","a",".","h",">">>,
      <<"}">>,
      <<"{","}">>,
      <<"n","o","t"," ","v","a","l","i","d"," ","j","s","o","n">>,
      <<"d","e","f"," ","f","(","x",")",":"," ","r","e","t","u","r","n"," ","x">> }

Contents == UNION { {Join(ls) : ls \in [1..n -> AnalyzeLines]} : n \in 1..MaxLines }

Filenames ==
    { <<>>, <<".","e","n","v">>, <<"c","o","n","f","i","g",".","j","s","o","n">>, <<"a",".","p","y">>, <<"a",".","c">>, <<"a",".","t","s">> }

---------------------------------------------------------------------------
(* detect_file_type                                                        *)

\* Path(filename).suffix: the last '.' of the final path component and what
\* follows it, unless that '.' is the component's first or last character
Suffix(name) ==
    LET slashes == {n \in 1..Len(name) : name[n] = "/"}
        start == IF slashes = {} THEN 1
                 ELSE 1 + CHOOSE j \in slashes : \A k \in slashes : j >= k
        base == SubSeq(name, start, Len(name))
        dots == {n \in 1..Len(base) : base[n] = "."}
        last == CHOOSE j \in dots : \A k \in dots : j >= k
    IN  IF dots = {} THEN <<>>
        ELSE IF 1 < last /\ last < Len(base) THEN SubSeq(base, last, Len(base))
        ELSE <<>>

\* json.loads(content) returns (raises nothing), for the documents contents can
\* spell: an empty object or array, an integer, a literal name; surrounding
\* whitespace is allowed, anything after the value is not
JsonWs(c) == c \in {" ", "\n", "\t", "\r"}
json_loads_ok(content) ==
    LET keep == {ix \in 1..Len(content) : ~JsonWs(content[ix])}
        lo == CHOOSE j \in keep : \A k \in keep : j <= k
        hi == CHOOSE j \in keep : \A k \in keep : j >= k
        doc == SubSeq(content, lo, hi)
        inner == SubSeq(doc, 2, Len(doc) - 1)
        digits == IF doc[1] = "-" THEN Tail(doc) ELSE doc
    IN  /\ keep # {}
        /\ \/ /\ Len(doc) >= 2
              /\ <<doc[1], doc[Len(doc)]>> \in {<<"{", "}">>, <<"[", "]">>}
              /\ \A ix \in 1..Len(inner) : JsonWs(inner[ix])
           \/ doc \in {<<"t","r","u","e">>, <<"f","a","l","s","e">>, <<"n","u","l","l">>, <<"N","a","N">>, <<"I","n","f","i","n","i","t","y">>, <<"-","I","n","f","i","n","i","t","y">>}
           \/ /\ digits # <<>>
              /\ \A n \in 1..Len(digits) : digits[n] \in Digits
              /\ (Len(digits) > 1 => digits[1] # "0")

\* elif ext == '.json': try: json.loads(content); return 'JSON' / except: pass
json_rule_no_parse(content) == TRUE
json_rule(content) == json_loads_ok(content)

\* the content heuristics with the JavaScript test ahead of the Python test
content_rules_js_first(name, content) ==
    LET named == name # <<>>
        fl == Lower(name)
    IN  IF Contains(content, <<"p","u","b","l","i","c"," ","c","l","a","s","s"," ">>) /\ (named => Contains(fl, <<".","j","a","v","a">>))
            THEN <<"J","a","v","a">>
        ELSE IF Contains(content, <<"f","u","n","c","t","i","o","n"," ">>) /\ (named => Contains(fl, <<".","j","s">>))
            THEN <<"J","a","v","a","S","c","r","i","p","t">>
        ELSE IF Contains(content, <<"d","e","f"," ">>) /\ (named => Contains(fl, <<".","p","y">>))
            THEN <<"P","y","t","h","o","n">>
        ELSE IF Contains(content, <<"#","i","n","c","l","u","d","e">>)
                /\ (named => (Contains(fl, <<".","c">>) \/ Contains(fl, <<".","h">>)))
            THEN <<"C">>
        ELSE IF Contains(content, <<"<","?","p","h","p">>)
            THEN <<"P","H","P">>
        ELSE IF Contains(content, <<"p","a","c","k","a","g","e"," ">>) /\ (named => Contains(fl, <<".","g","o">>))
            THEN <<"G","o">>
        ELSE IF Contains(content, <<"f","n"," ">>) /\ (named => Contains(fl, <<".","r","s">>))
            THEN <<"R","u","s","t">>
        ELSE <<"U","n","k","n","o","w","n">>

\* lines 246-262: the content heuristics, each gated by the file name
content_rules(name, content) ==
    LET named == name # <<>>
        fl == Lower(name)
    IN  IF Contains(content, <<"p","u","b","l","i","c"," ","c","l","a","s","s"," ">>) /\ (named => Contains(fl, <<".","j","a","v","a">>))
            THEN <<"J","a","v","a">>
        ELSE IF Contains(content, <<"d","e","f"," ">>) /\ (named => Contains(fl, <<".","p","y">>))
            THEN <<"P","y","t","h","o","n">>
        ELSE IF Contains(content, <<"f","u","n","c","t","i","o","n"," ">>) /\ (named => Contains(fl, <<".","j","s">>))
            THEN <<"J","a","v","a","S","c","r","i","p","t">>
        ELSE IF Contains(content, <<"#","i","n","c","l","u","d","e">>)
                /\ (named => (Contains(fl, <<".","c">>) \/ Contains(fl, <<".","h">>)))
            THEN <<"C">>
        ELSE IF Contains(content, <<"<","?","p","h","p">>)
            THEN <<"P","H","P">>
        ELSE IF Contains(content, <<"p","a","c","k","a","g","e"," ">>) /\ (named => Contains(fl, <<".","g","o">>))
            THEN <<"G","o">>
        ELSE IF Contains(content, <<"f","n"," ">>) /\ (named => Contains(fl, <<".","r","s">>))
            THEN <<"R","u","s","t">>
        ELSE <<"U","n","k","n","o","w","n">>

detect_file_type(name, content) ==
    LET named == name # <<>>
        name_lower == Lower(name)
        ext == Lower(Suffix(name))
    IN  IF named /\ (name_lower = <<".","e","n","v">> \/ StartsWith(name_lower, <<".","e","n","v",".">>))
            THEN <<"E","n","v","i","r","o","n","m","e","n","t"," ","V","a","r","i","a","b","l","e","s">>
        ELSE IF named /\ name_lower \in {<<".","g","i","t","i","g","n","o","r","e">>, <<".","d","o","c","k","e","r","i","g","n","o","r","e">>}
            THEN <<"I","g","n","o","r","e"," ","F","i","l","e">>
        ELSE IF named /\ ext = <<".","t","s","x">> THEN <<"T","y","p","e","S","c","r","i","p","t"," ","R","e","a","c","t">>
        ELSE IF named /\ ext = <<".","t","s">> THEN <<"T","y","p","e","S","c","r","i","p","t">>
        ELSE IF named /\ ext = <<".","j","s","x">> THEN <<"J","a","v","a","S","c","r","i","p","t"," ","R","e","a","c","t">>
        ELSE IF named /\ ext = <<".","j","s","o","n">> /\ json_rule(content) THEN <<"J","S","O","N">>
        ELSE IF named /\ ext = <<".","j","s","o","n">> THEN content_rules(name, content)
        ELSE IF named /\ ext \in {<<".","y","m","l">>, <<".","y","a","m","l">>} THEN <<"Y","A","M","L">>
        ELSE IF named /\ ext = <<".","x","m","l">> THEN <<"X","M","L">>
        ELSE IF named /\ ext = <<".","t","o","m","l">> THEN <<"T","O","M","L">>
        ELSE IF named /\ ext \in {<<".","i","n","i">>, <<".","c","f","g">>, <<".","c","o","n","f","i","g">>} THEN <<"C","o","n","f","i","g","u","r","a","t","i","o","n"," ","F","i","l","e">>
        ELSE IF named /\ ext \in {<<".","m","d">>, <<".","m","a","r","k","d","o","w","n">>} THEN <<"M","a","r","k","d","o","w","n">>
        ELSE content_rules(name, content)

---------------------------------------------------------------------------
(* detect_ml_code                                                          *)

\* ml_frameworks and ml_operations, in dict order
ml_frameworks ==
    << [name |-> "tensorflow", patterns |-> {<<"t","e","n","s","o","r","f","l","o","w">>, <<"t","f">>, <<"k","e","r","a","s">>}],
       [name |-> "pytorch", patterns |-> {<<"t","o","r","c","h">>, <<"n","n",".","M","o","d","u","l","e">>}],
       [name |-> "scikit-learn", patterns |-> {<<"s","k","l","e","a","r","n">>, <<"L","i","n","e","a","r","R","e","g","r","e","s","s","i","o","n">>, <<"R","a","n","d","o","m","F","o","r","e","s","t">>}],
       [name |-> "xgboost", patterns |-> {<<"x","g","b","o","o","s","t">>, <<"X","G","B","C","l","a","s","s","i","f","i","e","r">>}],
       [name |-> "pandas", patterns |-> {<<"p","a","n","d","a","s">>, <<"p","d",".","D","a","t","a","F","r","a","m","e">>}],
       [name |-> "numpy", patterns |-> {<<"n","u","m","p","y">>, <<"n","p",".","a","r","r","a","y">>}] >>
ml_operations ==
    << [name |-> "training",
        patterns |-> {<<"f","i","t">>, <<"t","r","a","i","n">>, <<"o","p","t","i","m","i","z","e","r">>, <<"l","o","s","s">>, <<"t","r","a","i","n","_","t","e","s","t","_","s","p","l","i","t">>}],
       [name |-> "prediction",
        patterns |-> {<<"p","r","e","d","i","c","t">>, <<"i","n","f","e","r","e","n","c","e">>, <<"e","v","a","l","u","a","t","e">>, <<"s","c","o","r","e">>}],
       [name |-> "preprocessing",
        patterns |-> {<<"t","r","a","n","s","f","o","r","m">>, <<"p","r","e","p","r","o","c","e","s","s","i","n","g">>, <<"s","t","a","n","d","a","r","d","i","z","a","t","i","o","n">>, <<"n","o","r","m","a","l","i","z","e">>}],
       [name |-> "evaluation",
        patterns |-> {<<"a","c","c","u","r","a","c","y">>, <<"p","r","e","c","i","s","i","o","n">>, <<"r","e","c","a","l","l">>, <<"f","1">>, <<"r","o","c","_","a","u","c">>,
                      <<"c","o","n","f","u","s","i","o","n","_","m","a","t","r","i","x">>}] >>

\* for framework, patterns in ml_frameworks.items(): if any(...): append, set the flag
RECURSIVE detect_frameworks(_, _, _)
detect_frameworks(info, content, k) ==
    IF k > Len(ml_frameworks) THEN info
    ELSE IF ContainsAny(content, ml_frameworks[k].patterns)
        THEN detect_frameworks(
                 [info EXCEPT !.frameworks = Append(@, ml_frameworks[k].name),
                              !.is_ml_code = TRUE], content, k + 1)
    ELSE detect_frameworks(info, content, k + 1)

\* the operations loop forgetting to set is_ml_code
RECURSIVE detect_operations_no_flag(_, _, _)
detect_operations_no_flag(info, content, k) ==
    IF k > Len(ml_operations) THEN info
    ELSE IF ContainsAny(content, ml_operations[k].patterns)
        THEN detect_operations_no_flag(
                 [info EXCEPT !.operations = Append(@, ml_operations[k].name)], content, k + 1)
    ELSE detect_operations_no_flag(info, content, k + 1)

\* for operation, patterns in ml_operations.items(): if any(...): append, set the flag
RECURSIVE detect_operations(_, _, _)
detect_operations(info, content, k) ==
    IF k > Len(ml_operations) THEN info
    ELSE IF ContainsAny(content, ml_operations[k].patterns)
        THEN detect_operations(
                 [info EXCEPT !.operations = Append(@, ml_operations[k].name),
                              !.is_ml_code = TRUE], content, k + 1)
    ELSE detect_operations(info, content, k + 1)

detect_ml_code(content, language) ==
    LET ml_info0 == [is_ml_code |-> FALSE, frameworks |-> <<>>, operations |-> <<>>]
    IN  detect_operations(detect_frameworks(ml_info0, content, 1), content, 1)

---------------------------------------------------------------------------
(* Structure metrics                                                       *)

Metrics(tl, el, cl, im, fd, cd, vd, lo, co) ==
    [total_lines |-> tl, empty_lines |-> el, comment_lines |-> cl,
     import_statements |-> im, function_definitions |-> fd, class_definitions |-> cd,
     variable_declarations |-> vd, loops |-> lo, conditionals |-> co]

MetricFields ==
    {"total_lines", "empty_lines", "comment_lines", "import_statements",
     "function_definitions", "class_definitions", "variable_declarations",
     "loops", "conditionals"}

\* len(content.splitlines())
line_count_split(content) == Len(Split(content))
line_count(content) == Len(Splitlines(content))

\* ast.parse(content) and the node counts ast.walk gives, for contents whose
\* lines are blank, comments, or one of these one-line statements; any other
\* line is a SyntaxError
PyStatements ==
    { [src |-> <<"K","=","1">>, im |-> 0, fd |-> 0, cd |-> 0, vd |-> 1, lo |-> 0, co |-> 0],
      [src |-> <<"i","m","p","o","r","t"," ","t","e","n","s","o","r","f","l","o","w"," ","a","s"," ","t","f">>, im |-> 1, fd |-> 0, cd |-> 0, vd |-> 0, lo |-> 0, co |-> 0],
      [src |-> <<"m","o","d","e","l",".","f","i","t","(","x",","," ","y",")">>, im |-> 0, fd |-> 0, cd |-> 0, vd |-> 0, lo |-> 0, co |-> 0],
      [src |-> <<"{","}">>, im |-> 0, fd |-> 0, cd |-> 0, vd |-> 0, lo |-> 0, co |-> 0],
      [src |-> <<"d","e","f"," ","f","(","x",")",":"," ","r","e","t","u","r","n"," ","x">>, im |-> 0, fd |-> 1, cd |-> 0, vd |-> 0, lo |-> 0, co |-> 0] }
PyBlank(line) == Strip(line) = <<>> \/ StartsWith(Strip(line), <<"#">>)
PyStatement(line) == CHOOSE st \in PyStatements : st.src = line
ast_parse_ok(content) ==
    \A n \in 1..Len(Split(content)) :
        LET line == Split(content)[n]
        IN  PyBlank(line) \/ \E st \in PyStatements : st.src = line
RECURSIVE ast_count(_, _)
ast_count(lines, field) ==
    IF lines = <<>> THEN 0
    ELSE (IF PyBlank(lines[1]) THEN 0 ELSE PyStatement(lines[1])[field])
         + ast_count(Tail(lines), field)

analyze_python_structure(content) ==
    IF ast_parse_ok(content)
    THEN LET lines == Split(content)
         IN  Metrics(line_count(content), Count(content, <<"\n","\n">>), Count(content, <<"#">>),
                     ast_count(lines, "im"), ast_count(lines, "fd"), ast_count(lines, "cd"),
                     ast_count(lines, "vd"), ast_count(lines, "lo"), ast_count(lines, "co"))
    ELSE Metrics(line_count(content), Count(content, <<"\n","\n">>), Count(content, <<"#">>),
                 0, 0, 0, 0, 0, 0)

\* The try block of analyze_c_structure returns only for a translation unit
\* with no external declaration (blank content): pycparser rejects comments
\* and #include, and for any node of ast.ext the test against
\* pycparser.c_ast.Include, a class c_ast does not have, raises.
c_try_returns(content) == Strip(content) = <<>>

analyze_c_structure(content) ==
    IF c_try_returns(content)
    THEN Metrics(line_count(content), Count(content, <<"\n","\n">>),
                 Count(content, <<"/","/">>) + Count(content, <<"/","*">>),
                 0, 0, 0, 0,
                 Count(content, <<"f","o","r">>) + Count(content, <<"w","h","i","l","e">>),
                 Count(content, <<"i","f">>) + Count(content, <<"s","w","i","t","c","h">>))
    ELSE Metrics(line_count(content), Count(content, <<"\n","\n">>),
                 Count(content, <<"/","/">>) + Count(content, <<"/","*">>),
                 Count(content, <<"#","i","n","c","l","u","d","e">>),
                 Count(content, <<"{">>) - Count(content, <<"}">>),
                 Count(content, <<"s","t","r","u","c","t">>) + Count(content, <<"u","n","i","o","n">>),
                 Count(content, <<";">>) - Count(content, <<"f","o","r">>) - Count(content, <<"w","h","i","l","e">>),
                 Count(content, <<"f","o","r">>) + Count(content, <<"w","h","i","l","e">>),
                 Count(content, <<"i","f">>) + Count(content, <<"s","w","i","t","c","h">>))

\* the else branch of analyze_code_structure
generic_structure(content) ==
    Metrics(line_count(content), Count(content, <<"\n","\n">>),
            Count(content, <<"/","/">>) + Count(content, <<"/","*">>) + Count(content, <<"#">>),
            Count(content, <<"i","m","p","o","r","t">>) + Count(content, <<"r","e","q","u","i","r","e">>) + Count(content, <<"#","i","n","c","l","u","d","e">>),
            Count(content, <<"f","u","n","c","t","i","o","n">>) + Count(content, <<"d","e","f">>) + Count(content, <<"v","o","i","d">>)
                + Count(content, <<"i","n","t">>),
            Count(content, <<"c","l","a","s","s">>) + Count(content, <<"s","t","r","u","c","t">>),
            Count(content, <<"l","e","t">>) + Count(content, <<"c","o","n","s","t">>) + Count(content, <<"v","a","r">>)
                + Count(content, <<"i","n","t">>) + Count(content, <<"f","l","o","a","t">>),
            Count(content, <<"f","o","r">>) + Count(content, <<"w","h","i","l","e">>),
            Count(content, <<"i","f">>) + Count(content, <<"s","w","i","t","c","h">>))

analyze_code_structure(content, label) ==
    IF label = <<"P","y","t","h","o","n">> THEN analyze_python_structure(content)
    ELSE IF label \in {<<"C">>, <<"C","+","+">>} THEN analyze_c_structure(content)
    ELSE generic_structure(content)

\* analyze_config_file (no caller in app.py)
HashLine(line) == StartsWith(Strip(line), <<"#">>)
BlankLine(line) == Strip(line) = <<>>
EnvDeclLine(line) == ~BlankLine(line) /\ Contains(Strip(line), <<"=">>) /\ ~HashLine(line)
ColonLine(line) == ~BlankLine(line) /\ Contains(Strip(line), <<":">>)
MarkupCommentLine(line) == StartsWith(Strip(line), <<"<","!","-","-">>)
EntryLine(line) == ~BlankLine(line) /\ ~HashLine(line)
analyze_config_file(content, label) ==
    LET lines == Split(content)
        base == Metrics(Len(lines), CountIf(lines, BlankLine), 0, 0, 0, 0, 0, 0, 0)
    IN  IF label = <<"E","n","v","i","r","o","n","m","e","n","t"," ","V","a","r","i","a","b","l","e","s">>
            THEN [base EXCEPT !.variable_declarations = CountIf(lines, EnvDeclLine),
                              !.comment_lines = CountIf(lines, HashLine)]
        ELSE IF label \in {<<"Y","A","M","L">>, <<"C","o","n","f","i","g","u","r","a","t","i","o","n"," ","F","i","l","e">>}
            THEN [base EXCEPT !.variable_declarations = CountIf(lines, ColonLine),
                              !.comment_lines = CountIf(lines, HashLine)]
        ELSE IF label = <<"X","M","L">>
            THEN [base EXCEPT !.variable_declarations = Count(content, <<"<","/">>),
                              !.comment_lines = Count(content, <<"<","!","-","-">>)]
        ELSE IF label = <<"M","a","r","k","d","o","w","n">>
            THEN [base EXCEPT !.comment_lines = CountIf(lines, MarkupCommentLine)]
        ELSE IF label = <<"I","g","n","o","r","e"," ","F","i","l","e">>
            THEN [base EXCEPT !.comment_lines = CountIf(lines, HashLine),
                              !.variable_declarations = CountIf(lines, EntryLine)]
        ELSE base

---------------------------------------------------------------------------
(* Complexity scores                                                       *)

calculate_cyclomatic_complexity(content) ==
    Count(content, <<"i","f">>) + Count(content, <<"e","l","s","e">>) + Count(content, <<"f","o","r">>)
    + Count(content, <<"w","h","i","l","e">>) + Count(content, <<"c","a","s","e">>) + Count(content, <<"c","a","t","c","h">>)
    + Count(content, <<"&","&">>) + Count(content, <<"|","|">>) + Count(content, <<"?">>) + 1

\* the loop of calculate_cognitive_complexity over code.splitlines()
NestingKeywords == {<<"i","f">>, <<"f","o","r">>, <<"w","h","i","l","e">>, <<"s","w","i","t","c","h">>}
FlowKeywords == {<<"b","r","e","a","k">>, <<"c","o","n","t","i","n","u","e">>, <<"r","e","t","u","r","n">>, <<"t","h","r","o","w">>}
RECURSIVE cognitive_scan(_, _, _, _)
cognitive_scan(lines, k, score, nesting_level) ==
    IF k > Len(lines) THEN score
    ELSE LET line == lines[k]
             nests == ContainsAny(line, NestingKeywords)
             s1 == IF nests THEN score + 1 + nesting_level ELSE score
             n1 == IF nests THEN nesting_level + 1
                   ELSE IF Contains(line, <<"}">>) THEN Max(0, nesting_level - 1)
                   ELSE nesting_level
             s2 == IF ContainsAny(line, FlowKeywords) THEN s1 + 1 ELSE s1
         IN  cognitive_scan(lines, k + 1, s2, n1)
calculate_cognitive_complexity(content) == cognitive_scan(Splitlines(content), 1, 0, 0)

\* round(1000 * math.log(n)) for n = 1..40
LnTable ==
    << 0, 693, 1099, 1386, 1609, 1792, 1946, 2079, 2197, 2303,
       2398, 2485, 2565, 2639, 2708, 2773, 2833, 2890, 2944, 2996,
       3045, 3091, 3135, 3178, 3219, 3258, 3296, 3332, 3367, 3401,
       3434, 3466, 3497, 3526, 3555, 3584, 3611, 3638, 3664, 3689 >>
\* 1000 * math.log(n) for n >= 1; beyond the table, log(n) = log(2) + log(n/2)
\* with n/2 rounded down (an error below 13 per halving)
RECURSIVE Ln(_)
Ln(n) == IF n <= Len(LnTable) THEN LnTable[n] ELSE LnTable[2] + Ln(n \div 2)
\* 1000 * math.log(num / den) for num, den > 0
LnRatio(num, den) == Ln(num) - Ln(den)

\* the scores are kept in units of 1/100000, so 100.0 is MiScale * 100
MiScale == 100000

\* mi = 171 - 5.2*log(complexity_per_line) - 0.23*log(total_lines)
\*         - 16.2*log(comment_ratio), in units of 1/MiScale
mi_formula(s) ==
    171 * MiScale
    - 520 * LnRatio(s.loops + s.conditionals + s.function_definitions, s.total_lines)
    - 23 * LnRatio(s.total_lines, 1)
    - 1620 * LnRatio(s.comment_lines, s.total_lines)

\* num / den <= 0  (den # 0)
RatioNotPositive(num, den) == num = 0 \/ ((num > 0) # (den > 0))

\* math.log raises ValueError for an argument <= 0
log_raises(s) ==
    \/ RatioNotPositive(s.loops + s.conditionals + s.function_definitions, s.total_lines)
    \/ s.total_lines <= 0
    \/ RatioNotPositive(s.comment_lines, s.total_lines)

\* return max(0, min(100, mi))
mi_unclamped(mi) == mi
mi_clamp(mi) == Max(0, Min(100 * MiScale, mi))

\* the except branch returning the value of the empty record
calculate_maintainability_index_except_100(s) ==
    IF s.total_lines = 0 \/ log_raises(s) THEN 100 * MiScale
    ELSE mi_clamp(mi_formula(s))

calculate_maintainability_index(s) ==
    IF s.total_lines = 0 THEN 100 * MiScale
    ELSE IF log_raises(s) THEN 0
    ELSE mi_clamp(mi_formula(s))

---------------------------------------------------------------------------
(* SpecAnalyze: the analysis functions applied to one (filename, code), in *)
(* the order of analyze_code and generate_code_summary: detect_file_type,  *)
(* detect_ml_code, analyze_code_structure, the complexity scores.          *)

NoValue == <<"-">>
NoMetrics == Metrics(0, 0, 0, 0, 0, 0, 0, 0, 0)
NoScores == [cyclomatic_complexity |-> 0, cognitive_complexity |-> 0, maintainability_index |-> 0]
NoMl == [is_ml_code |-> FALSE, frameworks |-> <<>>, operations |-> <<>>]

DocIdle == i = 0 /\ documented_lines = <<>> /\ documented_code = <<>>
AnalyzeIdle == filename = <<>> /\ ml_info = NoMl /\ complexity = NoScores
HttpIdle == cache = <<>> /\ now = 0 /\ ticks = 0 /\ served = 0 /\ delivered = {}
ExtraIdle ==
    /\ fn_name = <<>> /\ fn_content = <<>> /\ fn_purpose = <<>>
    /\ line_no = 0 /\ nesting = 0 /\ cognitive = 0
    /\ body_j = 0 /\ braces = 0 /\ body_lines = <<>>
    /\ workers = <<>>

AnalyzeInit ==
    /\ DocIdle
    /\ HttpIdle
    /\ ExtraIdle
    /\ filename \in Filenames
    /\ code \in Contents
    /\ file_type = NoValue
    /\ ml_info = NoMl
    /\ structure = NoMetrics
    /\ complexity = NoScores
    /\ pc = "detect"

\* file_type = detect_file_type(filename, code)
DetectFileType ==
    /\ pc = "detect"
    /\ file_type' = detect_file_type(filename, code)
    /\ pc' = "ml"
    /\ UNCHANGED <<filename, code, ml_info, structure, complexity>>
    /\ UNCHANGED <<dvars, hvars, xvars>>

\* ml_info = detect_ml_code(code, file_type)
DetectMl ==
    /\ pc = "ml"
    /\ ml_info' = detect_ml_code(code, file_type)
    /\ pc' = "structure"
    /\ UNCHANGED <<filename, code, file_type, structure, complexity>>
    /\ UNCHANGED <<dvars, hvars, xvars>>

\* structure = analyze_code_structure(code, file_type)
AnalyzeStructure ==
    /\ pc = "structure"
    /\ structure' = analyze_code_structure(code, file_type)
    /\ pc' = "complexity"
    /\ UNCHANGED <<filename, code, file_type, ml_info, complexity>>
    /\ UNCHANGED <<dvars, hvars, xvars>>

\* complexity = {...} of generate_code_summary
Complexity ==
    /\ pc = "complexity"
    /\ complexity' =
           [cyclomatic_complexity |-> calculate_cyclomatic_complexity(code),
            cognitive_complexity |-> calculate_cognitive_complexity(code),
            maintainability_index |-> calculate_maintainability_index(structure)]
    /\ pc' = "done"
    /\ UNCHANGED <<filename, code, file_type, ml_info, structure>>
    /\ UNCHANGED <<dvars, hvars, xvars>>

AnalyzeNext == DetectFileType \/ DetectMl \/ AnalyzeStructure \/ Complexity

SpecAnalyze == AnalyzeInit /\ [][AnalyzeNext]_vars

---------------------------------------------------------------------------
(* SpecMetrics: calculate_maintainability_index applied to a structure     *)
(* record whose fields are drawn from MinCount..MaxCount.                  *)

MaxCount == 2
MinCount == 0 - 1
\* one large count, for ratios far from 1
HugeCount == 50000
MetricValues == (MinCount..MaxCount) \cup {HugeCount}

MetricsInit ==
    /\ DocIdle
    /\ HttpIdle
    /\ ExtraIdle
    /\ filename = <<>>
    /\ code = <<>>
    /\ file_type = NoValue
    /\ ml_info = NoMl
    /\ \E tl, cl, fd, lo, co \in MetricValues :
           structure = Metrics(tl, 0, cl, 0, fd, 0, 0, lo, co)
    /\ complexity = NoScores
    /\ pc = "mi"

MaintainabilityIndex ==
    /\ pc = "mi"
    /\ complexity' = [complexity EXCEPT
           !.maintainability_index = calculate_maintainability_index(structure)]
    /\ pc' = "done"
    /\ UNCHANGED <<filename, code, file_type, ml_info, structure>>
    /\ UNCHANGED <<dvars, hvars, xvars>>

MetricsNext == MaintainabilityIndex

SpecMetrics == MetricsInit /\ [][MetricsNext]_vars


---------------------------------------------------------------------------
(* Regular expressions of generate_documented_code                         *)

\* the first index >= p that is not whitespace (\s*), and the first index
\* >= p that is not a word character (\w*)
RECURSIVE SkipSpace(_, _)
SkipSpace(s, p) == IF p <= Len(s) /\ IsSpace(s[p]) THEN SkipSpace(s, p + 1) ELSE p
RECURSIVE SkipWord(_, _)
SkipWord(s, p) == IF p <= Len(s) /\ IsWord(s[p]) THEN SkipWord(s, p + 1) ELSE p

MinOf(set) == CHOOSE j \in set : \A k \in set : j <= k

\* kw\s+\w+ matches at p; the \w+ group it captures
KwWord(s, kw, p) ==
    /\ OccursAt(s, kw, p)
    /\ SkipSpace(s, p + Len(kw)) > p + Len(kw)
    /\ SkipWord(s, SkipSpace(s, p + Len(kw))) > SkipSpace(s, p + Len(kw))
KwWordName(s, kw, p) ==
    SubSeq(s, SkipSpace(s, p + Len(kw)), SkipWord(s, SkipSpace(s, p + Len(kw))) - 1)

\* stripped.startswith(('//', '/*', '*/', '#', '<!--', '-->'))
CommentStarts == {<<"/","/">>, <<"/","*">>, <<"*","/">>, <<"#">>, <<"<","!","-","-">>, <<"-","-",">">>}
IsCommentLine(stripped) == \E c \in CommentStarts : StartsWith(stripped, c)

\* re.match(r'^\s*(import|from|require|using)\s+', s)
ImportKeywords == {<<"i","m","p","o","r","t">>, <<"f","r","o","m">>, <<"r","e","q","u","i","r","e">>, <<"u","s","i","n","g">>}
IsImportLine(s) ==
    LET p == SkipSpace(s, 1)
    IN  \E kw \in ImportKeywords :
            OccursAt(s, kw, p) /\ SkipSpace(s, p + Len(kw)) > p + Len(kw)

\* re.search(r'(class\s+\w+|interface\s+\w+|type\s+\w+\s*=)', s)
IsClassLine(s) ==
    \E p \in 1..Len(s) :
        \/ KwWord(s, <<"c","l","a","s","s">>, p)
        \/ KwWord(s, <<"i","n","t","e","r","f","a","c","e">>, p)
        \/ /\ KwWord(s, <<"t","y","p","e">>, p)
           /\ LET q == SkipSpace(s, SkipWord(s, SkipSpace(s, p + 4)))
              IN  q <= Len(s) /\ s[q] = "="

\* class_name = re.search(r'(class|interface|type)\s+(\w+)', s): the leftmost match
ClassKeywords == <<<<"c","l","a","s","s">>, <<"i","n","t","e","r","f","a","c","e">>, <<"t","y","p","e">>>>
ClassMatchAt(s, p) == {k \in 1..3 : KwWord(s, ClassKeywords[k], p)}
ClassMatchPos(s) == MinOf({p \in 1..Len(s) : ClassMatchAt(s, p) # {}})
ClassKind(s) == ClassKeywords[MinOf(ClassMatchAt(s, ClassMatchPos(s)))]
ClassName(s) == KwWordName(s, ClassKind(s), ClassMatchPos(s))

\* func_match = re.search(r'(function\s+(\w+)|\w+\s*:\s*function|(\w+)\s*=\s*\(.*\)\s*=>|def\s+(\w+))', s)
\* the alternative (1..4) that matches at p, 0 when none does
ColonFunctionAt(s, p) ==
    LET q == SkipSpace(s, SkipWord(s, p))
    IN  /\ SkipWord(s, p) > p
        /\ q <= Len(s) /\ s[q] = ":"
        /\ OccursAt(s, <<"f","u","n","c","t","i","o","n">>, SkipSpace(s, q + 1))
ArrowAt(s, p) ==
    LET q == SkipSpace(s, SkipWord(s, p))
        r == SkipSpace(s, q + 1)
    IN  /\ SkipWord(s, p) > p
        /\ q <= Len(s) /\ s[q] = "="
        /\ r <= Len(s) /\ s[r] = "("
        /\ \E c \in (r + 1)..Len(s) :
               s[c] = ")" /\ OccursAt(s, <<"=",">">>, SkipSpace(s, c + 1))
FuncAltAt(s, p) ==
    IF KwWord(s, <<"f","u","n","c","t","i","o","n">>, p) THEN 1
    ELSE IF ColonFunctionAt(s, p) THEN 2
    ELSE IF ArrowAt(s, p) THEN 3
    ELSE IF KwWord(s, <<"d","e","f">>, p) THEN 4
    ELSE 0
IsFunctionLine(s) == \E p \in 1..Len(s) : FuncAltAt(s, p) # 0
FuncMatchPos(s) == MinOf({p \in 1..Len(s) : FuncAltAt(s, p) # 0})
\* group 2, 3 or 4; <<>> is "no name" (alternative 2 captures nothing)
FuncName(s) ==
    LET p == FuncMatchPos(s)
        alt == FuncAltAt(s, p)
    IN  IF alt = 1 THEN KwWordName(s, <<"f","u","n","c","t","i","o","n">>, p)
        ELSE IF alt = 3 THEN SubSeq(s, p, SkipWord(s, p) - 1)
        ELSE IF alt = 4 THEN KwWordName(s, <<"d","e","f">>, p)
        ELSE <<>>

\* var_match = re.match(r'^\s*(var|let|const|int|float|string|bool|\w+:\s*\w+)\s+(\w+)', s)
\* the index where group 1 ends (one past it), 0 when there is no match
VarKeywords == <<<<"v","a","r">>, <<"l","e","t">>, <<"c","o","n","s","t">>, <<"i","n","t">>, <<"f","l","o","a","t">>, <<"s","t","r","i","n","g">>, <<"b","o","o","l">>>>
SpaceWordAt(s, q) ==
    SkipSpace(s, q) > q /\ SkipWord(s, SkipSpace(s, q)) > SkipSpace(s, q)
VarGroup1Ends(s) ==
    LET p == SkipSpace(s, 1)
        kws == {k \in 1..Len(VarKeywords) :
                   OccursAt(s, VarKeywords[k], p) /\ SpaceWordAt(s, p + Len(VarKeywords[k]))}
        c == SkipWord(s, p)
        t == SkipSpace(s, c + 1)
    IN  IF kws # {} THEN {p + Len(VarKeywords[MinOf(kws)])}
        ELSE IF /\ c > p /\ c <= Len(s) /\ s[c] = ":"
                /\ SkipWord(s, t) > t /\ SpaceWordAt(s, SkipWord(s, t))
            THEN {SkipWord(s, t)}
        ELSE {}
IsVarLine(s) == VarGroup1Ends(s) # {}
VarName(s) ==
    LET q == MinOf(VarGroup1Ends(s))
    IN  SubSeq(s, SkipSpace(s, q), SkipWord(s, SkipSpace(s, q)) - 1)

\* re.search(r'\b(k1|k2|...)\b', s)
WordBoundary(s, p) ==
    (p >= 2 /\ p <= Len(s) + 1 /\ IsWord(s[p - 1])) # (p >= 1 /\ p <= Len(s) /\ IsWord(s[p]))
HasWholeWord(s, kws) ==
    \E kw \in kws : \E p \in 1..Len(s) :
        OccursAt(s, kw, p) /\ WordBoundary(s, p) /\ WordBoundary(s, p + Len(kw))
LoopKeywords == {<<"f","o","r">>, <<"w","h","i","l","e">>, <<"d","o">>}
ConditionalKeywords == {<<"i","f">>, <<"e","l","s","e">>, <<"s","w","i","t","c","h">>, <<"c","a","s","e">>}
IsLoopLine(s) == HasWholeWord(s, LoopKeywords)
IsConditionalLine(s) == HasWholeWord(s, ConditionalKeywords)

\* the branch of the scan loop a line takes (the first test that succeeds)
line_branch(line) ==
    LET stripped == Strip(line)
    IN  IF stripped = <<>> THEN "blank"
        ELSE IF IsCommentLine(stripped) THEN "comment"
        ELSE IF IsImportLine(stripped) THEN "import"
        ELSE IF IsClassLine(stripped) THEN "class"
        ELSE IF IsFunctionLine(stripped) THEN "function"
        ELSE IF IsVarLine(stripped) THEN "variable"
        ELSE IF IsLoopLine(stripped) THEN "loop"
        ELSE IF IsConditionalLine(stripped) THEN "conditional"
        ELSE "default"

---------------------------------------------------------------------------
(* analyze_function_purpose                                                *)

RECURSIVE SkipLowerCase(_, _)
SkipLowerCase(s, p) ==
    IF p <= Len(s) /\ s[p] \in LowerLetters THEN SkipLowerCase(s, p + 1) ELSE p
RECURSIVE SkipUpperCase(_, _)
SkipUpperCase(s, p) ==
    IF p <= Len(s) /\ s[p] \in UpperLetters THEN SkipUpperCase(s, p + 1) ELSE p

\* re.findall(r'[A-Z]?[a-z]+|[A-Z]+(?=[A-Z]|$)', s), scanning from p: the end
\* (one past) of the match that starts at p, or p when nothing matches there
WordMatchEnd(s, p) ==
    LET a == IF s[p] \in UpperLetters THEN p + 1 ELSE p
        u == SkipUpperCase(s, p)
    IN  IF SkipLowerCase(s, a) > a THEN SkipLowerCase(s, a)
        ELSE IF u > p /\ u = Len(s) + 1 THEN u
        ELSE IF u > p + 1 THEN u - 1
        ELSE p
RECURSIVE find_words(_, _)
find_words(s, p) ==
    IF p > Len(s) THEN <<>>
    ELSE IF WordMatchEnd(s, p) = p THEN find_words(s, p + 1)
    ELSE <<SubSeq(s, p, WordMatchEnd(s, p) - 1)>> \o find_words(s, WordMatchEnd(s, p))

\* sep.join(words)
RECURSIVE JoinWith(_, _)
JoinWith(words, sep) ==
    IF words = <<>> THEN <<>>
    ELSE IF Len(words) = 1 THEN words[1]
    ELSE words[1] \o sep \o JoinWith(Tail(words), sep)

\* ' '.join(re.findall(..., s)).lower()
clean_words(s) == Lower(JoinWith(find_words(s, 1), <<" ">>))

\* prefixes, in dict order; the second 'handle' entry of the literal replaces
\* the value of the first and keeps its place
prefixes ==
    << <<<<"g","e","t">>, <<"R","e","t","r","i","e","v","e","s"," ","o","r"," ","c","a","l","c","u","l","a","t","e","s">>>>,
       <<<<"s","e","t">>, <<"U","p","d","a","t","e","s"," ","o","r"," ","c","h","a","n","g","e","s">>>>,
       <<<<"i","s">>, <<"C","h","e","c","k","s"," ","i","f">>>>,
       <<<<"h","a","s">>, <<"C","h","e","c","k","s"," ","i","f"," ","i","t"," ","c","o","n","t","a","i","n","s">>>>,
       <<<<"c","a","l","c">>, <<"C","a","l","c","u","l","a","t","e","s">>>>,
       <<<<"c","o","m","p","u","t","e">>, <<"C","o","m","p","u","t","e","s"," ","o","r"," ","c","a","l","c","u","l","a","t","e","s">>>>,
       <<<<"c","r","e","a","t","e">>, <<"C","r","e","a","t","e","s"," ","a"," ","n","e","w">>>>,
       <<<<"b","u","i","l","d">>, <<"C","o","n","s","t","r","u","c","t","s">>>>,
       <<<<"m","a","k","e">>, <<"C","r","e","a","t","e","s">>>>,
       <<<<"g","e","n","e","r","a","t","e">>, <<"P","r","o","d","u","c","e","s"," ","o","r"," ","c","r","e","a","t","e","s">>>>,
       <<<<"f","i","n","d">>, <<"S","e","a","r","c","h","e","s"," ","f","o","r">>>>,
       <<<<"s","e","a","r","c","h">>, <<"S","e","a","r","c","h","e","s"," ","f","o","r">>>>,
       <<<<"p","a","r","s","e">>, <<"A","n","a","l","y","z","e","s"," ","a","n","d"," ","p","r","o","c","e","s","s","e","s">>>>,
       <<<<"f","o","r","m","a","t">>, <<"F","o","r","m","a","t","s"," ","o","r"," ","s","t","r","u","c","t","u","r","e","s">>>>,
       <<<<"c","o","n","v","e","r","t">>, <<"C","o","n","v","e","r","t","s"," ","o","r"," ","t","r","a","n","s","f","o","r","m","s">>>>,
       <<<<"t","r","a","n","s","f","o","r","m">>, <<"T","r","a","n","s","f","o","r","m","s">>>>,
       <<<<"v","a","l","i","d","a","t","e">>, <<"V","a","l","i","d","a","t","e","s"," ","o","r"," ","c","h","e","c","k","s">>>>,
       <<<<"c","h","e","c","k">>, <<"C","h","e","c","k","s"," ","o","r"," ","v","e","r","i","f","i","e","s">>>>,
       <<<<"h","a","n","d","l","e">>, <<"P","r","o","c","e","s","s","e","s"," ","o","r"," ","m","a","n","a","g","e","s">>>>,
       <<<<"p","r","o","c","e","s","s">>, <<"P","r","o","c","e","s","s","e","s">>>>,
       <<<<"u","p","d","a","t","e">>, <<"U","p","d","a","t","e","s">>>>,
       <<<<"d","e","l","e","t","e">>, <<"R","e","m","o","v","e","s">>>>,
       <<<<"r","e","m","o","v","e">>, <<"R","e","m","o","v","e","s">>>>,
       <<<<"a","d","d">>, <<"A","d","d","s">>>>,
       <<<<"i","n","s","e","r","t">>, <<"I","n","s","e","r","t","s">>>>,
       <<<<"f","e","t","c","h">>, <<"R","e","t","r","i","e","v","e","s"," ","d","a","t","a">>>>,
       <<<<"l","o","a","d">>, <<"L","o","a","d","s"," ","d","a","t","a">>>>,
       <<<<"s","a","v","e">>, <<"S","a","v","e","s"," ","o","r"," ","p","e","r","s","i","s","t","s">>>>,
       <<<<"s","t","o","r","e">>, <<"S","t","o","r","e","s"," ","o","r"," ","s","a","v","e","s">>>>,
       <<<<"r","e","n","d","e","r">>, <<"D","i","s","p","l","a","y","s"," ","o","r"," ","r","e","n","d","e","r","s">>>>,
       <<<<"d","i","s","p","l","a","y">>, <<"S","h","o","w","s"," ","o","r"," ","d","i","s","p","l","a","y","s">>>>,
       <<<<"p","r","i","n","t">>, <<"O","u","t","p","u","t","s"," ","o","r"," ","p","r","i","n","t","s">>>>,
       <<<<"l","o","g">>, <<"R","e","c","o","r","d","s"," ","o","r"," ","l","o","g","s">>>>,
       <<<<"i","n","i","t">>, <<"I","n","i","t","i","a","l","i","z","e","s">>>>,
       <<<<"i","n","i","t","i","a","l","i","z","e">>, <<"S","e","t","s"," ","u","p"," ","i","n","i","t","i","a","l"," ","s","t","a","t","e">>>>,
       <<<<"s","e","t","u","p">>, <<"C","o","n","f","i","g","u","r","e","s"," ","o","r"," ","s","e","t","s"," ","u","p">>>>,
       <<<<"c","o","n","f","i","g","u","r","e">>, <<"C","o","n","f","i","g","u","r","e","s">>>>,
       <<<<"s","t","a","r","t">>, <<"B","e","g","i","n","s"," ","o","r"," ","i","n","i","t","i","a","t","e","s">>>>,
       <<<<"s","t","o","p">>, <<"S","t","o","p","s"," ","o","r"," ","t","e","r","m","i","n","a","t","e","s">>>>,
       <<<<"p","a","u","s","e">>, <<"T","e","m","p","o","r","a","r","i","l","y"," ","h","a","l","t","s">>>>,
       <<<<"r","e","s","u","m","e">>, <<"C","o","n","t","i","n","u","e","s"," ","a","f","t","e","r"," ","p","a","u","s","i","n","g">>>>,
       <<<<"o","n">>, <<"H","a","n","d","l","e","s"," ","e","v","e","n","t">>>> >>

return_patterns ==
    << <<<<"b","o","o","l","e","a","n">>, {<<"r","e","t","u","r","n"," ","t","r","u","e">>, <<"r","e","t","u","r","n"," ","f","a","l","s","e">>, <<"r","e","t","u","r","n"," ","(">>, <<"r","e","t","u","r","n"," ","!">>, <<"r","e","t","u","r","n"," ","!","!">>}>>,
       <<<<"s","t","r","i","n","g">>, {<<"r","e","t","u","r","n"," ","\"">>, <<"r","e","t","u","r","n"," ","'">>, <<"r","e","t","u","r","n"," ","backtick">>, <<"+">>, <<"c","o","n","c","a","t">>, <<"j","o","i","n">>, <<"t","o","S","t","r","i","n","g">>}>>,
       <<<<"n","u","m","b","e","r">>, {<<"r","e","t","u","r","n"," ","0">>, <<"r","e","t","u","r","n"," ","1">>, <<"r","e","t","u","r","n"," ","-">>, <<"r","e","t","u","r","n"," ","p","a","r","s","e","F","l","o","a","t">>, <<"r","e","t","u","r","n"," ","p","a","r","s","e","I","n","t">>, <<"M","a","t","h",".">>}>>,
       <<<<"a","r","r","a","y">>, {<<"r","e","t","u","r","n"," ","[">>, <<"p","u","s","h","(">>, <<"p","o","p","(">>, <<"s","h","i","f","t","(">>, <<"f","i","l","t","e","r","(">>, <<"m","a","p","(">>, <<"f","o","r","E","a","c","h","(">>, <<"r","e","d","u","c","e","(">>}>>,
       <<<<"o","b","j","e","c","t">>, {<<"r","e","t","u","r","n"," ","{">>, <<"r","e","t","u","r","n"," ","n","e","w">>, <<".","k","e","y","s","(">>, <<".","v","a","l","u","e","s","(">>, <<".","e","n","t","r","i","e","s","(">>}>>,
       <<<<"v","o","i","d">>, {<<"r","e","t","u","r","n",";">>, <<"s","e","t","S","t","a","t","e">>, <<"t","h","i","s",".","s","t","a","t","e">>, <<"c","o","n","s","o","l","e",".","l","o","g">>}>> >>

ui_patterns ==
    {<<"r","e","n","d","e","r">>, <<"c","o","m","p","o","n","e","n","t">>, <<"p","r","o","p","s">>, <<"s","t","a","t","e">>, <<"u","s","e","S","t","a","t","e">>, <<"u","s","e","E","f","f","e","c","t">>,
     <<"r","e","t","u","r","n"," ","<">>, <<"c","l","a","s","s","N","a","m","e">>, <<"s","t","y","l","e","=">>}
api_patterns ==
    {<<"f","e","t","c","h","(">>, <<"a","x","i","o","s">>, <<"h","t","t","p">>, <<".","g","e","t","(">>, <<".","p","o","s","t","(">>, <<".","p","u","t","(">>, <<".","d","e","l","e","t","e","(">>,
     <<"r","e","q","u","e","s","t">>, <<"r","e","s","p","o","n","s","e">>}
data_patterns ==
    {<<"m","a","p">>, <<"f","i","l","t","e","r">>, <<"r","e","d","u","c","e">>, <<"f","o","r","E","a","c","h">>, <<".","f","i","n","d","(">>, <<".","s","o","r","t","(">>, <<"a","r","r","a","y">>,
     <<"o","b","j","e","c","t">>, <<"j","s","o","n">>}
event_patterns ==
    {<<"c","l","i","c","k">>, <<"c","h","a","n","g","e">>, <<"s","u","b","m","i","t">>, <<"e","v","e","n","t">>, <<"h","a","n","d","l","e","r">>, <<"l","i","s","t","e","n","e","r">>, <<"o","n">>,
     <<"a","d","d","E","v","e","n","t","L","i","s","t","e","n","e","r">>}

\* the purpose from the name: the first prefix of the table the lowercased
\* name starts with, or the fallback
prefix_matches(func_name) ==
    {k \in 1..Len(prefixes) : StartsWith(Lower(func_name), prefixes[k][1])}
\* analyze_function_purpose with the prefix table searched from its end
name_purpose_last_match(func_name) ==
    IF prefix_matches(func_name) = {}
    THEN <<"H","a","n","d","l","e","s"," ">> \o clean_words(func_name) \o <<" ","f","u","n","c","t","i","o","n","a","l","i","t","y">>
    ELSE LET k == CHOOSE m \in prefix_matches(func_name) :
                      \A n \in prefix_matches(func_name) : n <= m
             remaining == Strip(SubSeq(func_name, Len(prefixes[k][1]) + 1, Len(func_name)))
         IN  IF remaining # <<>>
             THEN prefixes[k][2] \o <<" ">> \o clean_words(remaining)
             ELSE prefixes[k][2] \o <<" ","d","a","t","a">>

name_purpose(func_name) ==
    IF prefix_matches(func_name) = {}
    THEN <<"H","a","n","d","l","e","s"," ">> \o clean_words(func_name) \o <<" ","f","u","n","c","t","i","o","n","a","l","i","t","y">>
    ELSE LET k == MinOf(prefix_matches(func_name))
             remaining == Strip(SubSeq(func_name, Len(prefixes[k][1]) + 1, Len(func_name)))
         IN  IF remaining # <<>>
             THEN prefixes[k][2] \o <<" ">> \o clean_words(remaining)
             ELSE prefixes[k][2] \o <<" ","d","a","t","a">>

\* enhancements: "returns <type>" for the first return type with a pattern in
\* the body, then one clause for the first matching pattern group
enhancements(func_content) ==
    LET types == {k \in 1..Len(return_patterns) : ContainsAny(func_content, return_patterns[k][2])}
        rt == IF types = {} THEN <<>>
              ELSE <<<<"r","e","t","u","r","n","s"," ">> \o return_patterns[MinOf(types)][1]>>
        fn == IF ContainsAny(func_content, ui_patterns)
                  THEN <<<<"m","a","n","a","g","e","s"," ","U","I"," ","c","o","m","p","o","n","e","n","t","s"," ","o","r"," ","r","e","n","d","e","r","i","n","g">>>>
              ELSE IF ContainsAny(func_content, api_patterns)
                  THEN <<<<"c","o","m","m","u","n","i","c","a","t","e","s"," ","w","i","t","h"," ","e","x","t","e","r","n","a","l"," ","A","P","I"," ","o","r"," ","s","e","r","v","i","c","e","s">>>>
              ELSE IF ContainsAny(func_content, data_patterns)
                  THEN <<<<"p","r","o","c","e","s","s","e","s"," ","o","r"," ","t","r","a","n","s","f","o","r","m","s"," ","d","a","t","a">>>>
              ELSE IF ContainsAny(func_content, event_patterns)
                  THEN <<<<"h","a","n","d","l","e","s"," ","u","s","e","r"," ","i","n","t","e","r","a","c","t","i","o","n","s"," ","o","r"," ","e","v","e","n","t","s">>>>
              ELSE <<>>
    IN  rt \o fn

analyze_function_purpose(func_name, func_content, language) ==
    IF enhancements(func_content) = <<>> THEN name_purpose(func_name)
    ELSE name_purpose(func_name) \o <<" ","a","n","d"," ">> \o JoinWith(enhancements(func_content), <<","," ">>)

---------------------------------------------------------------------------
(* generate_documented_code                                                *)

\* str(n) of an f-string
DigitChars == <<"0", "1", "2", "3", "4", "5", "6", "7", "8", "9">>
RECURSIVE Str(_)
Str(n) ==
    IF n < 0 THEN <<"-">> \o Str(0 - n)
    ELSE IF n < 10 THEN <<DigitChars[n + 1]>>
    ELSE Str(n \div 10) \o <<DigitChars[(n % 10) + 1]>>

ConfigLabels ==
    {<<"J","S","O","N">>, <<"E","n","v","i","r","o","n","m","e","n","t"," ","V","a","r","i","a","b","l","e","s">>, <<"Y","A","M","L">>, <<"X","M","L">>, <<"T","O","M","L">>,
     <<"C","o","n","f","i","g","u","r","a","t","i","o","n"," ","F","i","l","e">>, <<"M","a","r","k","d","o","w","n">>, <<"I","g","n","o","r","e"," ","F","i","l","e">>}

\* the banner of a configuration or data file (lines 634-650)
config_banner(language) ==
    IF language = <<"J","S","O","N">>
        THEN <<<<"/","/"," ","J","S","O","N"," ","C","o","n","f","i","g","u","r","a","t","i","o","n"," ","F","i","l","e">>,
               <<"/","/"," ","T","h","i","s"," ","f","i","l","e"," ","c","o","n","t","a","i","n","s"," ","c","o","n","f","i","g","u","r","a","t","i","o","n"," ","s","e","t","t","i","n","g","s"," ","i","n"," ","J","S","O","N"," ","f","o","r","m","a","t",".">>,
               <<>>>>
    ELSE IF language = <<"E","n","v","i","r","o","n","m","e","n","t"," ","V","a","r","i","a","b","l","e","s">>
        THEN <<<<"#"," ","E","n","v","i","r","o","n","m","e","n","t"," ","V","a","r","i","a","b","l","e","s">>,
               <<"#"," ","T","h","i","s"," ","f","i","l","e"," ","c","o","n","t","a","i","n","s"," ","e","n","v","i","r","o","n","m","e","n","t","-","s","p","e","c","i","f","i","c"," ","c","o","n","f","i","g","u","r","a","t","i","o","n"," ","v","a","r","i","a","b","l","e","s",".">>,
               <<>>>>
    ELSE LET comment_char == IF language \in {<<"Y","A","M","L">>, <<"C","o","n","f","i","g","u","r","a","t","i","o","n"," ","F","i","l","e">>, <<"I","g","n","o","r","e"," ","F","i","l","e">>}
                             THEN <<"#">> ELSE <<"/","/">>
         IN  <<comment_char \o <<" ">> \o language \o <<" ","F","i","l","e">>,
               comment_char \o <<" ","T","h","i","s"," ","f","i","l","e"," ","c","o","n","t","a","i","n","s"," ","c","o","n","f","i","g","u","r","a","t","i","o","n"," ","s","e","t","t","i","n","g","s",".">>,
               <<>>>>

\* single_line, multi_start, multi_line, multi_end (lines 653-672)
comment_syntax(language) ==
    IF language \in {<<"J","a","v","a","S","c","r","i","p","t">>, <<"T","y","p","e","S","c","r","i","p","t">>, <<"J","a","v","a","S","c","r","i","p","t"," ","R","e","a","c","t">>,
                     <<"T","y","p","e","S","c","r","i","p","t"," ","R","e","a","c","t">>, <<"C">>, <<"C","+","+">>, <<"J","a","v","a">>, <<"C","#">>}
        THEN [single_line |-> <<"/","/">>, multi_start |-> <<"/","*","*">>,
              multi_line |-> <<" ","*"," ">>, multi_end |-> <<" ","*","/">>]
    ELSE IF language \in {<<"P","y","t","h","o","n">>, <<"R","u","b","y">>, <<"S","h","e","l","l">>, <<"B","a","s","h">>, <<"Y","A","M","L">>}
        THEN [single_line |-> <<"#">>, multi_start |-> <<"\"","\"","\"">>,
              multi_line |-> <<>>, multi_end |-> <<"\"","\"","\"">>]
    ELSE IF language \in {<<"H","T","M","L">>, <<"X","M","L">>}
        THEN [single_line |-> <<"<","!","-","-"," ">>, multi_start |-> <<"<","!","-","-"," ">>,
              multi_line |-> <<>>, multi_end |-> <<" ","-","-",">">>]
    ELSE [single_line |-> <<"/","/">>, multi_start |-> <<"/","*">>,
          multi_line |-> <<" ","*"," ">>, multi_end |-> <<" ","*","/">>]

\* the file header (lines 675-682)
file_header(language, s) ==
    LET cs == comment_syntax(language)
    IN  <<cs.multi_start,
          cs.multi_line \o <<"F","i","l","e",":"," ">> \o language \o <<" ","c","o","d","e">>,
          cs.multi_line \o <<"D","e","s","c","r","i","p","t","i","o","n",":"," ","T","h","i","s"," ","f","i","l","e"," ","c","o","n","t","a","i","n","s"," ">> \o language \o <<" ","c","o","d","e"," ","w","i","t","h"," ">>
              \o Str(s.function_definitions) \o <<" ","f","u","n","c","t","i","o","n","s"," ","a","n","d"," ">>
              \o Str(s.class_definitions) \o <<" ","c","l","a","s","s","e","s",".">>>>
        \o (IF s.import_statements > 0
            THEN <<cs.multi_line \o <<"I","m","p","o","r","t","s",":"," ">> \o Str(s.import_statements)
                       \o <<" ","e","x","t","e","r","n","a","l"," ","m","o","d","u","l","e","s","/","l","i","b","r","a","r","i","e","s">>>>
            ELSE <<>>)
        \o <<cs.multi_line \o <<"T","o","t","a","l"," ","l","i","n","e","s",":"," ">> \o Str(s.total_lines),
             cs.multi_end,
             <<>>>>

\* lines[k] with the source's 0-based index
LineAt(lines, k) == lines[k + 1]

\* the annotation of an import line given whatever the line before is
import_annotation_always(lines, k, language) ==
    <<comment_syntax(language).single_line \o <<" ","I","m","p","o","r","t","s"," ","r","e","q","u","i","r","e","d"," ","m","o","d","u","l","e","s">>>>

\* the annotation of an import line (lines 703-705): only when the line before
\* is not an import line
import_annotation(lines, k, language) ==
    IF k = 0 \/ ~IsImportLine(Strip(LineAt(lines, k - 1)))
    THEN <<comment_syntax(language).single_line \o <<" ","I","m","p","o","r","t","s"," ","r","e","q","u","i","r","e","d"," ","m","o","d","u","l","e","s">>>>
    ELSE <<>>

\* str.capitalize() of 'class', 'interface', 'type'
Capitalize(kw) ==
    IF kw = <<"c","l","a","s","s">> THEN <<"C","l","a","s","s">>
    ELSE IF kw = <<"i","n","t","e","r","f","a","c","e">> THEN <<"I","n","t","e","r","f","a","c","e">>
    ELSE <<"T","y","p","e">>

\* the block before a class, interface or type line (lines 711-720)
class_annotation(lines, k, language) ==
    LET cs == comment_syntax(language)
        stripped == Strip(LineAt(lines, k))
        name == ClassName(stripped)
        kind == ClassKind(stripped)
    IN  <<cs.multi_start,
          cs.multi_line \o Capitalize(kind) \o <<" ">> \o name,
          cs.multi_line \o <<"D","e","s","c","r","i","p","t","i","o","n",":"," ","D","e","f","i","n","e","s"," ","t","h","e"," ">> \o name \o <<" ">> \o kind,
          cs.multi_end>>

\* len(line) - len(line.lstrip())
Indent(line) == Len(line) - Len(LStrip(line))

\* the Python body scan (lines 745-748): the index j it stops at
RECURSIVE python_body_end(_, _, _, _)
python_body_end(lines, k, j, base_indent) ==
    IF j < Len(lines)
       /\ (j = k \/ Indent(LineAt(lines, j)) > base_indent \/ Strip(LineAt(lines, j)) = <<>>)
    THEN python_body_end(lines, k, j + 1, base_indent)
    ELSE j

\* line.count('{') - line.count('}')
BraceDelta(line) == Count(line, <<"{">>) - Count(line, <<"}">>)

\* the brace body scan (lines 751-758): the index j it stops at
RECURSIVE brace_body_end(_, _, _, _)
brace_body_end(lines, k, j, open_braces) ==
    IF j < Len(lines) /\ (open_braces > 0 \/ j = k)
    THEN brace_body_end(lines, k, j + 1,
             IF j + 1 < Len(lines) THEN open_braces + BraceDelta(LineAt(lines, j))
             ELSE open_braces)
    ELSE j

\* func_body: lines k .. j-1, each followed by "\n"
RECURSIVE body_text(_, _, _)
body_text(lines, k, j) ==
    IF k >= j THEN <<>> ELSE LineAt(lines, k) \o <<"\n">> \o body_text(lines, k + 1, j)

function_body_end(lines, k, language) ==
    LET line == LineAt(lines, k)
    IN  IF language = <<"P","y","t","h","o","n">> THEN python_body_end(lines, k, k, Indent(line))
        ELSE brace_body_end(lines, k, k,
                 IF Contains(line, <<"{">>) THEN BraceDelta(line) ELSE 0)

function_body(lines, k, language) == body_text(lines, k, function_body_end(lines, k, language))

\* params = re.search(r'\((.*?)\)', line): the text between the first '(' and
\* the first ')' after it; <<>> also when there is no match
param_text(line) ==
    LET opens == {p \in 1..Len(line) : line[p] = "("}
        closes == {p \in 1..Len(line) : line[p] = ")" /\ opens # {} /\ p > MinOf(opens)}
    IN  IF closes = {} THEN <<>> ELSE SubSeq(line, MinOf(opens) + 1, MinOf(closes) - 1)

\* param.split(':')[0].strip() if ':' in param else param.split('=')[0].strip()
param_name(param) ==
    IF Contains(param, <<":">>) THEN Strip(SplitOn(param, ":")[1])
    ELSE Strip(SplitOn(param, "=")[1])

\* one @param line per parameter (lines 768-775)
RECURSIVE param_lines(_, _)
param_lines(param_list, multi_line) ==
    IF param_list = <<>> THEN <<>>
    ELSE LET param == Strip(param_list[1])
         IN  (IF param # <<>> /\ param # <<")">>
              THEN <<multi_line \o <<"@","p","a","r","a","m"," ">> \o param_name(param) \o <<" ","-"," ","P","a","r","a","m","e","t","e","r"," ","d","e","s","c","r","i","p","t","i","o","n">>>>
              ELSE <<>>)
             \o param_lines(Tail(param_list), multi_line)

\* the @returns line (lines 778-793)
returns_line(func_body, language) ==
    IF language \in {<<"J","a","v","a","S","c","r","i","p","t">>, <<"T","y","p","e","S","c","r","i","p","t">>, <<"J","a","v","a">>, <<"C","#">>}
    THEN IF Contains(func_body, <<"r","e","t","u","r","n"," ">>)
         THEN IF Contains(func_body, <<"r","e","t","u","r","n"," ","t","r","u","e">>) \/ Contains(func_body, <<"r","e","t","u","r","n"," ","f","a","l","s","e">>)
                  THEN <<"@","r","e","t","u","r","n","s"," ","B","o","o","l","e","a","n"," ","i","n","d","i","c","a","t","i","n","g"," ","s","u","c","c","e","s","s"," ","o","r"," ","v","a","l","i","d","a","t","i","o","n"," ","r","e","s","u","l","t">>
              ELSE IF Contains(func_body, <<"r","e","t","u","r","n"," ","{">>) \/ Contains(func_body, <<"r","e","t","u","r","n"," ","n","e","w"," ">>)
                  THEN <<"@","r","e","t","u","r","n","s"," ","O","b","j","e","c","t"," ","c","o","n","t","a","i","n","i","n","g"," ","t","h","e"," ","r","e","s","u","l","t"," ","d","a","t","a">>
              ELSE IF Contains(func_body, <<"r","e","t","u","r","n"," ","[">>)
                  THEN <<"@","r","e","t","u","r","n","s"," ","A","r","r","a","y"," ","o","f"," ","i","t","e","m","s">>
              ELSE IF Contains(func_body, <<"r","e","t","u","r","n"," ","n","u","l","l">>)
                  THEN <<"@","r","e","t","u","r","n","s"," ","N","u","l","l"," ","i","n"," ","c","e","r","t","a","i","n"," ","c","o","n","d","i","t","i","o","n","s">>
              ELSE <<"@","r","e","t","u","r","n","s"," ","R","e","s","u","l","t"," ","o","f"," ","t","h","e"," ","o","p","e","r","a","t","i","o","n">>
         ELSE <<"@","r","e","t","u","r","n","s"," ","V","o","i","d"," ","-"," ","n","o"," ","r","e","t","u","r","n"," ","v","a","l","u","e">>
    ELSE <<"@","r","e","t","u","r","n","s"," ","D","e","s","c","r","i","p","t","i","o","n"," ","o","f"," ","r","e","t","u","r","n"," ","v","a","l","u","e">>

\* the block before a function definition line (lines 726-797)
function_annotation(lines, k, language) ==
    LET cs == comment_syntax(language)
        line == LineAt(lines, k)
        func_name == FuncName(Strip(line))
        func_body == function_body(lines, k, language)
    IN  IF func_name = <<>>
        THEN <<cs.single_line \o <<" ","F","u","n","c","t","i","o","n"," ","d","e","f","i","n","i","t","i","o","n">>>>
        ELSE <<cs.multi_start,
               cs.multi_line \o <<"F","u","n","c","t","i","o","n",":"," ">> \o func_name,
               cs.multi_line \o <<"D","e","s","c","r","i","p","t","i","o","n",":"," ">>
                   \o analyze_function_purpose(func_name, func_body, language)>>
             \o (IF Strip(param_text(line)) # <<>>
                 THEN param_lines(SplitOn(param_text(line), ","), cs.multi_line)
                 ELSE <<>>)
             \o <<cs.multi_line \o returns_line(func_body, language),
                  cs.multi_end>>

\* the annotation of a variable declaration (lines 804-825)
variable_purpose(var_name) ==
    LET low == Lower(var_name)
    IN  IF Contains(var_name, <<"_","i","d">>) \/ Contains(var_name, <<"I","d">>) THEN <<"s","t","o","r","e","s"," ","i","d","e","n","t","i","f","i","e","r">>
        ELSE IF Contains(low, <<"c","o","u","n","t">>) \/ Contains(low, <<"n","u","m">>) THEN <<"s","t","o","r","e","s"," ","n","u","m","e","r","i","c"," ","c","o","u","n","t">>
        ELSE IF Contains(low, <<"n","a","m","e">>) THEN <<"s","t","o","r","e","s"," ","n","a","m","e"," ","s","t","r","i","n","g">>
        ELSE IF Contains(low, <<"i","s">>) \/ Contains(low, <<"h","a","s">>) \/ Contains(low, <<"s","h","o","u","l","d">>)
            THEN <<"s","t","o","r","e","s"," ","b","o","o","l","e","a","n"," ","f","l","a","g">>
        ELSE IF Contains(low, <<"d","a","t","e">>) \/ Contains(low, <<"t","i","m","e">>) THEN <<"s","t","o","r","e","s"," ","d","a","t","e","/","t","i","m","e"," ","v","a","l","u","e">>
        ELSE IF Contains(low, <<"l","i","s","t">>) \/ Contains(low, <<"a","r","r","a","y">>)
                \/ var_name[Len(var_name)] = "s"
            THEN <<"s","t","o","r","e","s"," ","c","o","l","l","e","c","t","i","o","n"," ","o","f"," ","i","t","e","m","s">>
        ELSE IF Contains(low, <<"c","o","n","f","i","g">>) \/ Contains(low, <<"o","p","t","i","o","n","s">>)
                \/ Contains(low, <<"s","e","t","t","i","n","g","s">>)
            THEN <<"s","t","o","r","e","s"," ","c","o","n","f","i","g","u","r","a","t","i","o","n"," ","o","p","t","i","o","n","s">>
        ELSE <<"s","t","o","r","e","s"," ","d","a","t","a">>
variable_annotation(lines, k, language) ==
    LET var_name == VarName(Strip(LineAt(lines, k)))
    IN  <<comment_syntax(language).single_line \o <<" ">> \o var_name
              \o <<":"," ","V","a","r","i","a","b","l","e"," ","t","h","a","t"," ">> \o variable_purpose(var_name)>>

\* the annotation of a loop line (lines 831-842)
loop_annotation(lines, k, language) ==
    LET stripped == Strip(LineAt(lines, k))
        loop_purpose ==
            IF Contains(stripped, <<"i"," ","="," ","0">>) \/ Contains(stripped, <<"i","=","0">>)
               \/ Contains(stripped, <<"l","e","t"," ","i">>)
                THEN <<"i","t","e","r","a","t","i","n","g"," ","t","h","r","o","u","g","h"," ","i","n","d","i","c","e","s">>
            ELSE IF Contains(stripped, <<"f","o","r","E","a","c","h">>) \/ Contains(stripped, <<"m","a","p">>)
                THEN <<"p","r","o","c","e","s","s","i","n","g"," ","e","a","c","h"," ","i","t","e","m"," ","i","n"," ","c","o","l","l","e","c","t","i","o","n">>
            ELSE IF Contains(stripped, <<"w","h","i","l","e">>)
                    /\ (Contains(stripped, <<"t","r","u","e">>) \/ Contains(stripped, <<"1">>))
                THEN <<"r","u","n","n","i","n","g"," ","c","o","n","t","i","n","u","o","u","s","l","y"," ","u","n","t","i","l"," ","i","n","t","e","r","r","u","p","t","e","d">>
            ELSE <<"i","t","e","r","a","t","i","n","g"," ","t","h","r","o","u","g","h"," ","i","t","e","m","s">>
    IN  <<comment_syntax(language).single_line \o <<" ","L","o","o","p"," ","f","o","r"," ">> \o loop_purpose>>

\* the annotation of a conditional line (lines 848-862)
conditional_annotation(lines, k, language) ==
    LET stripped == Strip(LineAt(lines, k))
        single_line == comment_syntax(language).single_line
    IN  IF Contains(stripped, <<"i","f">>)
        THEN IF Contains(stripped, <<"n","u","l","l">>) \/ Contains(stripped, <<"u","n","d","e","f","i","n","e","d">>)
                 THEN <<single_line \o <<" ","C","o","n","d","i","t","i","o","n","a","l"," ","c","h","e","c","k"," ","f","o","r"," ","n","u","l","l","/","u","n","d","e","f","i","n","e","d"," ","v","a","l","u","e">>>>
             ELSE IF Contains(stripped, <<"=","=">>) \/ Contains(stripped, <<"=","=","=">>)
                 THEN <<single_line \o <<" ","C","o","n","d","i","t","i","o","n","a","l"," ","c","h","e","c","k"," ","f","o","r"," ","e","q","u","a","l","i","t","y">>>>
             ELSE IF Contains(stripped, <<">">>) \/ Contains(stripped, <<"<">>)
                 THEN <<single_line \o <<" ","C","o","n","d","i","t","i","o","n","a","l"," ","c","h","e","c","k"," ","f","o","r"," ","c","o","m","p","a","r","i","s","o","n">>>>
             ELSE <<single_line \o <<" ","C","o","n","d","i","t","i","o","n","a","l"," ","c","h","e","c","k">>>>
        ELSE IF Contains(stripped, <<"e","l","s","e">>)
            THEN <<single_line \o <<" ","A","l","t","e","r","n","a","t","i","v","e"," ","c","o","n","d","i","t","i","o","n">>>>
        ELSE IF Contains(stripped, <<"s","w","i","t","c","h">>) \/ Contains(stripped, <<"c","a","s","e">>)
            THEN <<single_line \o <<" ","S","w","i","t","c","h"," ","c","a","s","e"," ","f","o","r"," ","m","u","l","t","i","p","l","e"," ","c","o","n","d","i","t","i","o","n","s">>>>
        ELSE <<>>

---------------------------------------------------------------------------
(* SpecDoc: generate_documented_code(code, language, structure), one       *)
(* iteration of its scan loop per step.  code is the content, file_type    *)
(* the language, structure the metrics record.                             *)

\* the longest content given to generate_documented_code has MaxDocLines lines
MaxDocLines == 2

DocLineSet ==
    { <<>>,
      <<"#"," ","c">>,
      <<"i","m","p","o","r","t"," ","o","s">>,
      <<"c","l","a","s","s"," ","A",":">>,
      <<"d","e","f"," ","g","e","t","_","u","s","e","r","_","n","a","m","e","(","i","d",")",":">>,
      <<" "," "," "," ","r","e","t","u","r","n"," ","n","a","m","e">>,
      <<"f","u","n","c","t","i","o","n"," ","f","(","a",","," ","b",")"," ","{">>,
      <<"}">>,
      <<"l","e","t"," ","c","o","u","n","t"," ","="," ","0">>,
      <<"w","h","i","l","e"," ","(","t","r","u","e",")"," ","{">>,
      <<"i","f"," ","(","x"," ","=","="," ","n","u","l","l",")"," ","{">> }

DocContents == UNION { {Join(ls) : ls \in [1..n -> DocLineSet]} : n \in 1..MaxDocLines }
DocLabels == {<<"P","y","t","h","o","n">>, <<"J","a","v","a","S","c","r","i","p","t">>, <<"E","n","v","i","r","o","n","m","e","n","t"," ","V","a","r","i","a","b","l","e","s">>}
DocStructures == {NoMetrics, Metrics(2, 0, 0, 1, 1, 0, 0, 0, 0)}

\* an entry of documented_lines: the text, and whether the function built it
\* (inserted) or took it from lines (a tag the list of the source does not hold)
Inserted(texts) == [k \in 1..Len(texts) |-> [text |-> texts[k], inserted |-> TRUE]]
Original(texts) == [k \in 1..Len(texts) |-> [text |-> texts[k], inserted |-> FALSE]]
Texts(entries) == [k \in 1..Len(entries) |-> entries[k].text]

DocInit ==
    /\ AnalyzeIdle
    /\ HttpIdle
    /\ ExtraIdle
    /\ code \in DocContents
    /\ file_type \in DocLabels
    /\ structure \in DocStructures
    /\ pc = "doc"
    /\ i = 0
    /\ documented_lines = <<>>
    /\ documented_code = <<>>

\* lines 634-650: a configuration or data file gets a banner and returns
DocConfigFile ==
    /\ pc = "doc"
    /\ file_type \in ConfigLabels
    /\ documented_lines' = Inserted(config_banner(file_type)) \o Original(Split(code))
    /\ documented_code' = Join(Texts(documented_lines'))
    /\ pc' = "returned"
    /\ UNCHANGED <<hvars, xvars, filename, code, file_type, ml_info, structure, complexity, i>>

\* lines 653-685: the file header, then i = 0
DocHeader ==
    /\ pc = "doc"
    /\ file_type \notin ConfigLabels
    /\ documented_lines' = Inserted(file_header(file_type, structure))
    /\ i' = 0
    /\ pc' = "scan"
    /\ UNCHANGED <<hvars, xvars, filename, code, file_type, ml_info, structure, complexity, documented_code>>

\* i += 1 after a function definition line (line 800)
function_advance_past_body(lines, k, language) == function_body_end(lines, k, language)
function_advance(lines, k, language) == k + 1

\* one iteration of `while i < len(lines)` on a line of the given branch:
\* the annotation, then the line itself, then the index moves on
ScanLine(branch, annotation, next) ==
    /\ pc = "scan"
    /\ i < Len(Split(code))
    /\ line_branch(LineAt(Split(code), i)) = branch
    /\ documented_lines' =
           documented_lines \o Inserted(annotation) \o Original(<<LineAt(Split(code), i)>>)
    /\ i' = next
    /\ UNCHANGED <<hvars, xvars, filename, code, file_type, ml_info, structure, complexity, pc, documented_code>>

ScanBlank == ScanLine("blank", <<>>, i + 1)
ScanComment == ScanLine("comment", <<>>, i + 1)
ScanImport == ScanLine("import", import_annotation(Split(code), i, file_type), i + 1)
ScanClass == ScanLine("class", class_annotation(Split(code), i, file_type), i + 1)
ScanFunction ==
    ScanLine("function", function_annotation(Split(code), i, file_type),
             function_advance(Split(code), i, file_type))
ScanVariable == ScanLine("variable", variable_annotation(Split(code), i, file_type), i + 1)
ScanLoop == ScanLine("loop", loop_annotation(Split(code), i, file_type), i + 1)
ScanConditional ==
    ScanLine("conditional", conditional_annotation(Split(code), i, file_type), i + 1)
ScanDefault == ScanLine("default", <<>>, i + 1)

\* return '\n'.join(documented_lines)
DocReturn ==
    /\ pc = "scan"
    /\ i >= Len(Split(code))
    /\ documented_code' = Join(Texts(documented_lines))
    /\ pc' = "returned"
    /\ UNCHANGED <<hvars, xvars, filename, code, file_type, ml_info, structure, complexity, i, documented_lines>>

DocNext ==
    \/ DocConfigFile \/ DocHeader
    \/ ScanBlank \/ ScanComment \/ ScanImport \/ ScanClass \/ ScanFunction
    \/ ScanVariable \/ ScanLoop \/ ScanConditional \/ ScanDefault
    \/ DocReturn

SpecDoc == DocInit /\ [][DocNext]_vars

\* generate_documented_code as one call: the banner or the header, then the
\* scan loop run to its end
line_annotation(lines, k, language) ==
    LET branch == line_branch(LineAt(lines, k))
    IN  CASE branch = "import" -> import_annotation(lines, k, language)
          [] branch = "class" -> class_annotation(lines, k, language)
          [] branch = "function" -> function_annotation(lines, k, language)
          [] branch = "variable" -> variable_annotation(lines, k, language)
          [] branch = "loop" -> loop_annotation(lines, k, language)
          [] branch = "conditional" -> conditional_annotation(lines, k, language)
          [] OTHER -> <<>>
next_index(lines, k, language) ==
    IF line_branch(LineAt(lines, k)) = "function"
    THEN function_advance(lines, k, language)
    ELSE k + 1
RECURSIVE scan_lines(_, _, _)
scan_lines(lines, k, language) ==
    IF k >= Len(lines) THEN <<>>
    ELSE line_annotation(lines, k, language) \o <<LineAt(lines, k)>>
             \o scan_lines(lines, next_index(lines, k, language), language)
generate_documented_code(content, language, s) ==
    IF language \in ConfigLabels
    THEN Join(config_banner(language) \o Split(content))
    ELSE Join(file_header(language, s) \o scan_lines(Split(content), 0, language))

---------------------------------------------------------------------------
(* Spec: the HTTP server.  POST /api/analyze and POST /analyze run         *)
(* cache_response(handle_errors(validate_input(analyze_code))); one step   *)
(* is one request handled from lookup to reply, and time.time() moves only *)
(* between requests.  Clients stay inside the limits of flask_limiter, so  *)
(* no request is answered 429.  hashlib.md5 is taken to be injective on    *)
(* the bodies sent, so the cache key is the body itself.                   *)

\* len(data['code']) > 1000000
MaxCodeLen == 1000000
\* @cache_response(expire=60*10)
Expire == 600
\* len(cache) > 100
CacheLimit == 100

\* how many requests are answered, and how many times the clock advances
MaxRequests == 3
MaxTicks == 2

\* Python values of a parsed JSON text.  A str is chars followed by `extra`
\* further copies of the character "x", so that a text of a million
\* characters is a value of the model.
PyInt(v) == [type |-> "int", value |-> v]
PyStr(chars, extra) == [type |-> "str", chars |-> chars, extra |-> extra]
PyDict(items) == [type |-> "dict", items |-> items]
NoItems == [k \in {} |-> PyInt(0)]
PyLen(v) == Len(v.chars) + v.extra
\* bool(v)
Truthy(v) ==
    CASE v.type = "int" -> v.value # 0
      [] v.type = "str" -> PyLen(v) > 0
      [] v.type = "dict" -> DOMAIN v.items # {}

\* request.data and what request.get_json() gives for it
Body(text, json) == [data |-> text, json |-> json]
CodeX == PyStr(<<"x">>, 0)
JsonBodies ==
    { Body("5", PyInt(5)),
      Body("{}", PyDict(NoItems)),
      Body("{\"code\": 5}", PyDict([code |-> PyInt(5)])),
      Body("{\"code\": \"x\"}", PyDict([code |-> CodeX])),
      Body("{\"code\": \"x\", \"filename\": 123}",
           PyDict([code |-> CodeX, filename |-> PyInt(123)])),
      Body("{\"code\": \"def f(x): return x\", \"filename\": \"a.py\"}",
           PyDict([code |-> PyStr(<<"d","e","f"," ","f","(","x",")",":"," ","r","e","t","u","r","n"," ","x">>, 0),
                   filename |-> PyStr(<<"a",".","p","y">>, 0)])),
      Body("{\"code\": \"x\" * 1000000}", PyDict([code |-> PyStr(<<"x">>, MaxCodeLen - 1)])),
      Body("{\"code\": \"x\" * 1000001}", PyDict([code |-> PyStr(<<"x">>, MaxCodeLen)])) }
\* a body sent without the JSON content type
PlainBodies == {Body("{\"code\": \"x\"}", PyDict([code |-> CodeX]))}

Requests ==
    [method : {"POST"}, content_type : {"application/json"}, body : JsonBodies]
        \cup [method : {"POST"}, content_type : {"text/plain"}, body : PlainBodies]
\* the preflight request of a browser
OptionsRequest == [method |-> "OPTIONS", content_type |-> "", body |-> Body("", PyInt(0))]

\* request.is_json
is_json(request) == request.content_type = "application/json"
get_json(request) == request.body.json

\* what a call gives: a response it returns or an exception it raises, and
\* whether an analysis function was called on the way
Response(status, body) == [status |-> status, body |-> body]
Returns(response, analyzed) ==
    [raised |-> FALSE, message |-> "", response |-> response, analyzed |-> analyzed]
Raises(message, analyzed) ==
    [raised |-> TRUE, message |-> message, response |-> Response(0, [error |-> ""]),
     analyzed |-> analyzed]
ErrorBody(text) == [error |-> text]

\* generate_code_explanation (lines 598-626); no structure record of
\* analyze_code_structure has the keys ml_frameworks or detailed_structure
generate_code_explanation(content, language, s) ==
    <<"T","h","i","s"," ","i","s"," ">> \o language \o <<" ","c","o","d","e"," ","w","i","t","h"," ">> \o Str(s.total_lines) \o <<" ","l","i","n","e","s">>
    \o <<"."," ","I","t"," ","c","o","n","t","a","i","n","s"," ">> \o Str(s.function_definitions) \o <<" ","f","u","n","c","t","i","o","n","s",","," ">>
    \o Str(s.class_definitions) \o <<" ","c","l","a","s","s","e","s",","," ","a","n","d"," ","u","s","e","s"," ">>
    \o Str(s.import_statements) \o <<" ","i","m","p","o","r","t","s","."," ">>
    \o (IF s.loops > 0 \/ s.conditionals > 0
        THEN <<"T","h","e"," ","c","o","d","e"," ","i","n","c","l","u","d","e","s"," ">> \o Str(s.loops) \o <<" ","l","o","o","p","s"," ","a","n","d"," ">>
                 \o Str(s.conditionals) \o <<" ","c","o","n","d","i","t","i","o","n","a","l"," ","s","t","a","t","e","m","e","n","t","s","."," ">>
        ELSE <<>>)

\* the four analysis calls of analyze_code on (name, content).  A content
\* that is "x" followed by more "x" has the lines, the substring counts and
\* the scan branch of "x", and its documented text ends with the content:
\* the analysis is computed on chars and the run is carried to the end of
\* documented_code.
analysis(name, content) ==
    LET language == detect_file_type(name, content.chars)
        s == analyze_code_structure(content.chars, language)
    IN  [language |-> language,
         structure |-> s,
         explanation |-> generate_code_explanation(content.chars, language, s),
         documented_code |->
             PyStr(generate_documented_code(content.chars, language, s), content.extra)]

\* analyze_code (lines 1031-1052): filename.lower() of detect_file_type
\* raises AttributeError for a filename that is true and not a str
analyze_code(request) ==
    LET data == get_json(request)
        content == data.items["code"]
        name == IF "filename" \in DOMAIN data.items THEN data.items["filename"]
                ELSE PyStr(<<>>, 0)
    IN  IF Truthy(name) /\ name.type # "str"
        THEN Raises("AttributeError", TRUE)
        ELSE Returns(Response(200, analysis(IF Truthy(name) THEN name.chars ELSE <<>>,
                                            content)), TRUE)

\* validate_input (lines 184-198): 'code' not in data raises TypeError for
\* an int, and data['code'] raises TypeError for a str
validate_input(request) ==
    LET data == get_json(request)
    IN  IF ~is_json(request)
            THEN Returns(Response(400, ErrorBody("Request must be JSON")), FALSE)
        ELSE IF ~Truthy(data)
            THEN Returns(Response(400, ErrorBody("Missing required field: code")), FALSE)
        ELSE IF data.type = "int"
            THEN Raises("TypeError", FALSE)
        ELSE IF data.type = "str" /\ ~Contains(data.chars, <<"c","o","d","e">>)
            THEN Returns(Response(400, ErrorBody("Missing required field: code")), FALSE)
        ELSE IF data.type = "str"
            THEN Raises("TypeError", FALSE)
        ELSE IF "code" \notin DOMAIN data.items
            THEN Returns(Response(400, ErrorBody("Missing required field: code")), FALSE)
        ELSE IF data.items["code"].type # "str"
            THEN Returns(Response(400, ErrorBody("Code must be a string")), FALSE)
        ELSE IF PyLen(data.items["code"]) > MaxCodeLen
            THEN Returns(Response(413, ErrorBody("Code size exceeds limit")), FALSE)
        ELSE analyze_code(request)

\* validate_input(analyze_code) on each request: it reads no state (the
\* table is computed once, @@ making it an explicit function)
validated == [request \in Requests |-> validate_input(request)] @@ <<>>

\* handle_errors (lines 152-169), app.debug false: error_id is a digest of
\* the time and the message
handle_errors(outcome) ==
    IF outcome.raised
    THEN Returns(Response(500, [error |-> "An internal server error occurred",
                                error_id |-> <<now, outcome.message>>]),
                 outcome.analyzed)
    ELSE outcome

\* cache_response (lines 109-136) for a POST
cache_key(request) == request.body.data
cache_index(key) == {k \in 1..Len(cache) : cache[k].key = key}
\* the lookup without the expiry test
cache_hit_never_expires(request) == cache_index(cache_key(request)) # {}
cache_hit(request) ==
    /\ cache_index(cache_key(request)) # {}
    /\ now - cache[CHOOSE k \in cache_index(cache_key(request)) : TRUE].timestamp < Expire
\* the store skipping responses with an error status
cache_store_ok_only(key, result) ==
    LET entry == [key |-> key, result |-> result, timestamp |-> now]
    IN  IF result.status >= 400 THEN cache
        ELSE IF cache_index(key) # {}
        THEN [k \in 1..Len(cache) |-> IF cache[k].key = key THEN entry ELSE cache[k]]
        ELSE Append(cache, entry)
\* cache[cache_key] = (result, time.time()): a key already there keeps its place
cache_store(key, result) ==
    LET entry == [key |-> key, result |-> result, timestamp |-> now]
    IN  IF cache_index(key) # {}
        THEN [k \in 1..Len(cache) |-> IF cache[k].key = key THEN entry ELSE cache[k]]
        ELSE Append(cache, entry)
\* min(cache.items(), key=lambda x: x[1][1])[0]: the first oldest entry
oldest_index(entries) ==
    CHOOSE k \in 1..Len(entries) :
        /\ \A j \in 1..Len(entries) : entries[k].timestamp <= entries[j].timestamp
        /\ \A j \in 1..(k - 1) : entries[j].timestamp > entries[k].timestamp
cache_evict(entries) ==
    IF Len(entries) > CacheLimit
    THEN [k \in 1..(Len(entries) - 1) |->
              IF k < oldest_index(entries) THEN entries[k] ELSE entries[k + 1]]
    ELSE entries

Exchange(request, outcome) ==
    [request |-> request, response |-> outcome.response, analyzed |-> outcome.analyzed]

\* one POST answered by the decorated analyze_code (no other method is
\* routed to it)
Post(request) ==
    /\ served < MaxRequests
    /\ served' = served + 1
    /\ IF cache_hit(request)
       THEN LET k == CHOOSE k \in cache_index(cache_key(request)) : TRUE
            IN  /\ delivered' = delivered \cup
                       {Exchange(request, Returns(cache[k].result, FALSE))}
                /\ cache' = cache
       ELSE LET outcome == handle_errors(validated[request])
            IN  /\ delivered' = delivered \cup {Exchange(request, outcome)}
                /\ cache' = cache_evict(cache_store(cache_key(request), outcome.response))
    /\ UNCHANGED <<now, ticks>>
    /\ UNCHANGED <<avars, dvars, xvars>>

\* POST /api/analyze
AnalyzeCode == \E request \in Requests : Post(request)

\* /analyze (lines 1055-1064): OPTIONS is answered with the CORS headers,
\* POST returns analyze_code()
AnalyzeCompat ==
    \/ /\ served < MaxRequests
       /\ served' = served + 1
       /\ delivered' = delivered \cup
              {Exchange(OptionsRequest,
                        Returns(Response(200, [allow_origin |-> "*",
                                               allow_headers |-> "Content-Type,Authorization",
                                               allow_methods |-> "POST,OPTIONS"]), FALSE))}
       /\ UNCHANGED <<cache, now, ticks>>
       /\ UNCHANGED <<avars, dvars, xvars>>
    \/ \E request \in Requests : Post(request)

\* time passes
Tick ==
    /\ ticks < MaxTicks
    /\ ticks' = ticks + 1
    /\ \E d \in {1, Expire - 1} : now' = now + d
    /\ UNCHANGED <<cache, served, delivered>>
    /\ UNCHANGED <<avars, dvars, xvars>>

HttpInit ==
    /\ AnalyzeIdle
    /\ DocIdle
    /\ HttpIdle
    /\ ExtraIdle
    /\ code = <<>>
    /\ file_type = NoValue
    /\ structure = NoMetrics
    /\ pc = "serve"

Next == AnalyzeCode \/ AnalyzeCompat \/ Tick

Spec == HttpInit /\ [][Next]_vars

---------------------------------------------------------------------------
(* SpecPurpose: analyze_function_purpose applied to a function name and a  *)
(* function body.                                                          *)

\* names: a head that does or does not start with a prefix of the table,
\* then a remainder with or without words
NameHeads ==
    { <<"g","e","t">>, <<"G","e","t">>, <<"s","e","t">>, <<"s","e","t","u","p">>, <<"i","n","i","t">>, <<"i","n","i","t","i","a","l","i","z","e">>, <<"h","a","n","d","l","e">>,
      <<"o","n">>, <<"i","s">>, <<"x">>, <<"d","o">> }
NameTails == { <<>>, <<"_">>, <<"_","u","s","e","r","_","n","a","m","e">>, <<"U","s","e","r","N","a","m","e">>, <<"H","T","T","P","R","e","s","p","o","n","s","e">>, <<"X","1">> }
PurposeNames == {head \o tail : head \in NameHeads, tail \in NameTails}
PurposeBodies == { <<>>, <<"r","e","t","u","r","n"," ","t","r","u","e">>, <<"c","o","n","s","o","l","e",".","l","o","g","(","x",")">> }

PurposeInit ==
    /\ AnalyzeIdle
    /\ DocIdle
    /\ HttpIdle
    /\ code = <<>>
    /\ file_type = NoValue
    /\ structure = NoMetrics
    /\ fn_name \in PurposeNames
    /\ fn_content \in PurposeBodies
    /\ fn_purpose = <<>>
    /\ line_no = 0 /\ nesting = 0 /\ cognitive = 0
    /\ body_j = 0 /\ braces = 0 /\ body_lines = <<>>
    /\ workers = <<>>
    /\ pc = "purpose"

\* purpose = analyze_function_purpose(func_name, func_body, language)
AnalyzeFunctionPurpose ==
    /\ pc = "purpose"
    /\ fn_purpose' = analyze_function_purpose(fn_name, fn_content, <<"J","a","v","a","S","c","r","i","p","t">>)
    /\ pc' = "done"
    /\ UNCHANGED <<filename, code, file_type, ml_info, structure, complexity>>
    /\ UNCHANGED <<dvars, hvars>>
    /\ UNCHANGED <<fn_name, fn_content, line_no, nesting, cognitive, body_j, braces,
                   body_lines, workers>>

PurposeNext == AnalyzeFunctionPurpose

SpecPurpose == PurposeInit /\ [][PurposeNext]_vars

---------------------------------------------------------------------------
(* SpecDetect: detect_file_type over file names and contents that satisfy  *)
(* several of its rules at once.                                           *)

\* the longest content has MaxDetectLines lines
MaxDetectLines == 2

DetectLines ==
    { <<"d","e","f"," ","f","(","x",")",":"," ","r","e","t","u","r","n"," ","x">>,
      <<"f","u","n","c","t","i","o","n"," ","f","(",")"," ","{","}">>,
      <<"p","u","b","l","i","c"," ","c","l","a","s","s"," ","A"," ","{","}">>,
      <<"#","i","n","c","l","u","d","e"," ","<","a",".","h",">">>,
      <<"<","?","p","h","p">>,
      <<"p","a","c","k","a","g","e"," ","m","a","i","n">>,
      <<"f","n"," ","m","a","i","n","(",")"," ","{","}">>,
      <<"K","=","1">>,
      <<"i","m","p","o","r","t"," ","R","e","a","c","t"," ","f","r","o","m"," ","'","r","e","a","c","t","'">>,
      <<"{","}">> }

DetectContents == UNION { {Join(ls) : ls \in [1..n -> DetectLines]} : n \in 1..MaxDetectLines }

DetectNames ==
    { <<>>, <<".","e","n","v",".","t","s">>, <<".","g","i","t","i","g","n","o","r","e">>, <<"a",".","t","s">>, <<"a",".","j","s","o","n">>, <<"a",".","m","d">>, <<"a",".","t","x","t">>,
      <<"a",".","p","y">>, <<"a",".","j","s">>, <<"a",".","j","a","v","a">>, <<"a",".","c">>, <<"a",".","p","h","p">>, <<"a",".","g","o">>, <<"a",".","r","s">> }

DetectInit ==
    /\ DocIdle
    /\ HttpIdle
    /\ ExtraIdle
    /\ filename \in DetectNames
    /\ code \in DetectContents
    /\ file_type = NoValue
    /\ ml_info = NoMl
    /\ structure = NoMetrics
    /\ complexity = NoScores
    /\ pc = "detect"

DetectNext == DetectFileType

SpecDetect == DetectInit /\ [][DetectNext]_vars

---------------------------------------------------------------------------
(* SpecCognitive: the loop of calculate_cognitive_complexity, one line of  *)
(* code.splitlines() per step.                                             *)

\* the longest content has MaxCognitiveLines lines
MaxCognitiveLines == 3

CognitiveLineSet ==
    { <<"i","f"," ","(","a",")"," ","{">>,
      <<"}"," ","e","l","s","e"," ","i","f"," ","(","b",")"," ","{">>,
      <<"}">>,
      <<"r","e","t","u","r","n"," ","x",";">>,
      <<"x"," ","="," ","1",";">>,
      <<"w","h","i","l","e"," ","(","a",")"," ","{"," ","b","r","e","a","k",";"," ","}">> }

CognitiveContents ==
    UNION { {Join(ls) : ls \in [1..n -> CognitiveLineSet]} : n \in 1..MaxCognitiveLines }

\* complexity = 0; nesting_level = 0
CognitiveInit ==
    /\ AnalyzeIdle
    /\ DocIdle
    /\ HttpIdle
    /\ code \in CognitiveContents
    /\ file_type = NoValue
    /\ structure = NoMetrics
    /\ fn_name = <<>> /\ fn_content = <<>> /\ fn_purpose = <<>>
    /\ line_no = 0 /\ nesting = 0 /\ cognitive = 0
    /\ body_j = 0 /\ braces = 0 /\ body_lines = <<>>
    /\ workers = <<>>
    /\ pc = "cognitive"

\* one iteration of `for line in code.splitlines():`
CognitiveLine ==
    /\ pc = "cognitive"
    /\ line_no < Len(Splitlines(code))
    /\ LET line == Splitlines(code)[line_no + 1]
           nests == ContainsAny(line, NestingKeywords)
           flow == IF ContainsAny(line, FlowKeywords) THEN 1 ELSE 0
       IN  /\ cognitive' = (IF nests THEN cognitive + (1 + nesting) ELSE cognitive) + flow
           /\ nesting' = IF nests THEN nesting + 1
                         ELSE IF Contains(line, <<"}">>) THEN Max(0, nesting - 1)
                         ELSE nesting
    /\ line_no' = line_no + 1
    /\ UNCHANGED <<filename, code, file_type, ml_info, structure, complexity, pc>>
    /\ UNCHANGED <<dvars, hvars>>
    /\ UNCHANGED <<fn_name, fn_content, fn_purpose, body_j, braces, body_lines, workers>>

\* return complexity
CognitiveReturn ==
    /\ pc = "cognitive"
    /\ line_no = Len(Splitlines(code))
    /\ complexity' = [complexity EXCEPT !.cognitive_complexity = cognitive]
    /\ pc' = "done"
    /\ UNCHANGED <<filename, code, file_type, ml_info, structure>>
    /\ UNCHANGED <<dvars, hvars, xvars>>

CognitiveNext == CognitiveLine \/ CognitiveReturn

SpecCognitive == CognitiveInit /\ [][CognitiveNext]_vars

\* the loop returns what calculate_cognitive_complexity computes
CognitiveLoopAgrees ==
    pc = "done" => complexity.cognitive_complexity = calculate_cognitive_complexity(code)

---------------------------------------------------------------------------
(* SpecBody: the function body extraction of generate_documented_code for  *)
(* a brace language (lines 739-758), one step per loop iteration.  The     *)
(* definition line is lines[i] with i = 0.                                 *)

\* the definition line is followed by at most MaxBodyLines lines
MaxBodyLines == 3

DefinitionLines == { <<"f","u","n","c","t","i","o","n"," ","f","(","a",","," ","b",")"," ","{">>, <<"f","u","n","c","t","i","o","n"," ","g","(",")"," ","{","}">> }
FollowingLines == { <<"x"," ","="," ","1",";">>, <<"}">>, <<"i","f"," ","(","x",")"," ","{">>, <<"}"," ","e","l","s","e"," ","{">>, <<>> }

BodyContents ==
    UNION { {Join(<<d>> \o ls) : d \in DefinitionLines, ls \in [1..n -> FollowingLines]} :
            n \in 0..MaxBodyLines }

BodyInit ==
    /\ AnalyzeIdle
    /\ DocIdle
    /\ HttpIdle
    /\ code \in BodyContents
    /\ file_type = <<"J","a","v","a","S","c","r","i","p","t">>
    /\ structure = NoMetrics
    /\ fn_name = <<>> /\ fn_content = <<>> /\ fn_purpose = <<>>
    /\ line_no = 0 /\ nesting = 0 /\ cognitive = 0
    /\ body_j = 0 /\ braces = 0 /\ body_lines = <<>>
    /\ workers = <<>>
    /\ pc = "body"

\* func_body = ""; open_braces = 0; j = i; if '{' in line: open_braces += ...
BodyStart ==
    /\ pc = "body"
    /\ body_lines' = <<>>
    /\ body_j' = i
    /\ braces' = IF Contains(LineAt(Split(code), i), <<"{">>)
                 THEN BraceDelta(LineAt(Split(code), i)) ELSE 0
    /\ pc' = "collect"
    /\ UNCHANGED <<filename, code, file_type, ml_info, structure, complexity>>
    /\ UNCHANGED <<dvars, hvars>>
    /\ UNCHANGED <<fn_name, fn_content, fn_purpose, line_no, nesting, cognitive, workers>>

\* one iteration of `while j < len(lines) and (open_braces > 0 or j == i)`
BodyCollect ==
    /\ pc = "collect"
    /\ body_j < Len(Split(code))
    /\ (braces > 0 \/ body_j = i)
    /\ body_lines' = Append(body_lines, LineAt(Split(code), body_j))
    /\ body_j' = body_j + 1
    /\ braces' = IF body_j + 1 < Len(Split(code))
                 THEN braces + BraceDelta(LineAt(Split(code), body_j))
                 ELSE braces
    /\ UNCHANGED <<filename, code, file_type, ml_info, structure, complexity, pc>>
    /\ UNCHANGED <<dvars, hvars>>
    /\ UNCHANGED <<fn_name, fn_content, fn_purpose, line_no, nesting, cognitive, workers>>

\* the loop condition fails: func_body is complete
BodyDone ==
    /\ pc = "collect"
    /\ ~(body_j < Len(Split(code)) /\ (braces > 0 \/ body_j = i))
    /\ fn_content' = body_text(Split(code), i, body_j)
    /\ pc' = "done"
    /\ UNCHANGED <<filename, code, file_type, ml_info, structure, complexity>>
    /\ UNCHANGED <<dvars, hvars>>
    /\ UNCHANGED <<fn_name, fn_purpose, line_no, nesting, cognitive, body_j, braces,
                   body_lines, workers>>

BodyNext == BodyStart \/ BodyCollect \/ BodyDone

SpecBody == BodyInit /\ [][BodyNext]_vars

\* the loop stops where function_body_end says, with function_body's text
BodyLoopAgrees ==
    pc = "done" =>
        /\ body_j = function_body_end(Split(code), i, file_type)
        /\ fn_content = function_body(Split(code), i, file_type)

---------------------------------------------------------------------------
(* SpecCache: cache_response.decorated_function run by concurrent request  *)
(* threads (the server handles each request in its own thread), one step   *)
(* per read or write of the shared cache dict.  The cache starts full:     *)
(* CacheLimit earlier requests with distinct bodies have been answered.    *)

\* request threads in flight together
CacheWorkers == 2
\* clock advances during the run
MaxCacheTicks == 1

\* the response f returns for the request whose body has this fingerprint
CachedResult(key) == <<"result", key>>

\* the fingerprints of the earlier requests, and those of the requests in
\* flight: two new bodies, and the body of the oldest cached entry
EarlierKey(n) == Str(n)
WorkerKeys == { <<"a">>, <<"b">>, EarlierKey(1) }

NoKey == <<>>
Worker(key) == [pc |-> "lookup", key |-> key, oldest_key |-> NoKey]
Quiescent == \A w \in DOMAIN workers : workers[w].pc \in {"returned", "failed at read", "failed at pop"}

CacheInit ==
    /\ AnalyzeIdle
    /\ DocIdle
    /\ code = <<>>
    /\ file_type = NoValue
    /\ structure = NoMetrics
    /\ pc = "serve"
    /\ cache = [n \in 1..CacheLimit |->
                   [key |-> EarlierKey(n), result |-> CachedResult(EarlierKey(n)),
                    timestamp |-> n]]
    /\ now = CacheLimit + 1
    /\ ticks = 0
    /\ served = 0
    /\ delivered = {}
    /\ fn_name = <<>> /\ fn_content = <<>> /\ fn_purpose = <<>>
    /\ line_no = 0 /\ nesting = 0 /\ cognitive = 0
    /\ body_j = 0 /\ braces = 0 /\ body_lines = <<>>
    /\ workers \in [1..CacheWorkers -> {Worker(key) : key \in WorkerKeys}]

CacheUnchanged ==
    /\ UNCHANGED <<avars, dvars>>
    /\ UNCHANGED <<served, delivered>>
    /\ UNCHANGED <<fn_name, fn_content, fn_purpose, line_no, nesting, cognitive, body_j,
                   braces, body_lines>>

GoTo(w, label) == workers' = [workers EXCEPT ![w].pc = label]

\* if cache_key in cache:
Lookup(w) ==
    /\ workers[w].pc = "lookup"
    /\ GoTo(w, IF cache_index(workers[w].key) # {} THEN "read" ELSE "insert")
    /\ UNCHANGED <<cache, now, ticks>>
    /\ CacheUnchanged

\* cached_result, timestamp = cache[cache_key]; the expiry test; a key
\* popped since the lookup raises KeyError
ReadEntry(w) ==
    /\ workers[w].pc = "read"
    /\ GoTo(w, IF cache_index(workers[w].key) = {} THEN "failed at read"
               ELSE IF cache_hit([body |-> [data |-> workers[w].key]]) THEN "returned"
               ELSE "insert")
    /\ UNCHANGED <<cache, now, ticks>>
    /\ CacheUnchanged

\* result = f(*args, **kwargs); cache[cache_key] = (result, time.time())
Insert(w) ==
    /\ workers[w].pc = "insert"
    /\ cache' = cache_store(workers[w].key, CachedResult(workers[w].key))
    /\ GoTo(w, "check")
    /\ UNCHANGED <<now, ticks>>
    /\ CacheUnchanged

\* if len(cache) > 100:
SizeCheck(w) ==
    /\ workers[w].pc = "check"
    /\ GoTo(w, IF Len(cache) > CacheLimit THEN "select" ELSE "returned")
    /\ UNCHANGED <<cache, now, ticks>>
    /\ CacheUnchanged

\* oldest_key = min(cache.items(), key=lambda x: x[1][1])[0]
SelectOldest(w) ==
    /\ workers[w].pc = "select"
    /\ workers' = [workers EXCEPT ![w].pc = "pop",
                                  ![w].oldest_key = cache[oldest_index(cache)].key]
    /\ UNCHANGED <<cache, now, ticks>>
    /\ CacheUnchanged

\* cache.pop(oldest_key): KeyError when the key is gone; return result
Pop(w) ==
    /\ workers[w].pc = "pop"
    /\ IF cache_index(workers[w].oldest_key) = {}
       THEN /\ GoTo(w, "failed at pop")
            /\ cache' = cache
       ELSE /\ GoTo(w, "returned")
            /\ cache' = SelectSeq(cache, LAMBDA entry : entry.key # workers[w].oldest_key)
    /\ UNCHANGED <<now, ticks>>
    /\ CacheUnchanged

\* time passes
CacheTick ==
    /\ ticks < MaxCacheTicks
    /\ ticks' = ticks + 1
    /\ now' = now + 1
    /\ UNCHANGED <<cache, workers>>
    /\ CacheUnchanged

CacheNext ==
    \/ \E w \in 1..CacheWorkers :
           \/ Lookup(w)
           \/ ReadEntry(w)
           \/ Insert(w)
           \/ SizeCheck(w)
           \/ SelectOldest(w)
           \/ Pop(w)
    \/ CacheTick

SpecCache == CacheInit /\ [][CacheNext]_vars

---------------------------------------------------------------------------
(* SpecDocLive: SpecDoc with the call running on: generate_documented_code *)
(* is sequential code without a blocking call, so a step that can be       *)
(* taken is taken.  The fairness condition is on DocStep, the steps of     *)
(* DocNext with one iteration of the scan read from a table of the         *)
(* iterations (every line of every content, computed once).                *)

ScanKeys ==
    {key \in DocContents \X (DocLabels \ ConfigLabels) \X (0..(MaxDocLines - 1)) :
        key[3] < Len(Split(key[1]))}

\* one iteration of `while i < len(lines)`: the lines put in front of the
\* line, the line, and the index after the iteration
scan_iteration ==
    [key \in ScanKeys |->
        [annotation |-> line_annotation(Split(key[1]), key[3], key[2]),
         line |-> LineAt(Split(key[1]), key[3]),
         next |-> next_index(Split(key[1]), key[3], key[2])]] @@ <<>>

\* len(lines) of each content
doc_line_count == [content \in DocContents |-> Len(Split(content))] @@ <<>>

ScanIteration ==
    /\ pc = "scan"
    /\ i < doc_line_count[code]
    /\ documented_lines' =
           documented_lines \o Inserted(scan_iteration[<<code, file_type, i>>].annotation)
               \o Original(<<scan_iteration[<<code, file_type, i>>].line>>)
    /\ i' = scan_iteration[<<code, file_type, i>>].next
    /\ UNCHANGED <<hvars, xvars, filename, code, file_type, ml_info, structure, complexity, pc, documented_code>>

DocStep == DocConfigFile \/ DocHeader \/ ScanIteration \/ DocReturn

SpecDocLive == DocInit /\ [][DocNext]_vars /\ WF_vars(DocStep)

\* every line of the scan falls in one of the nine branches of the loop, and
\* the steps of the call are the steps of DocStep
DocStepIsDocNext ==
    /\ [](pc = "scan" /\ i < Len(Split(code)) =>
              line_branch(LineAt(Split(code), i)) \in
                  {"blank", "comment", "import", "class", "function", "variable",
                   "loop", "conditional", "default"})
    /\ [][DocStep]_vars

---------------------------------------------------------------------------
(* Claims                                                                  *)

OriginalTexts(entries) ==
    Texts(SelectSeq(entries, LAMBDA e : ~e.inserted))

\* C1: generate_documented_code emits every line of content.split('\n')
\* verbatim, once and in order: the returned text, split into lines, is
\* documented_lines, and without the inserted lines it is the original line
\* sequence.
C1_OriginalLinesPreserved ==
    /\ pc = "scan" => OriginalTexts(documented_lines) = SubSeq(Split(code), 1, i)
    /\ pc = "returned" =>
           /\ Split(documented_code) = Texts(documented_lines)
           /\ OriginalTexts(documented_lines) = Split(code)

\* a function definition with a body line, annotated and returned
C1_Witness ==
    /\ pc = "returned"
    /\ file_type = <<"P","y","t","h","o","n">>
    /\ code = <<"d","e","f"," ","g","e","t","_","u","s","e","r","_","n","a","m","e","(","i","d",")",":","\n"," "," "," "," ","r","e","t","u","r","n"," ","n","a","m","e">>
    /\ Len(documented_lines) > Len(Split(code)) + 7
    /\ \E k \in 1..Len(documented_lines) :
           /\ documented_lines[k].inserted
           /\ documented_lines[k].text = <<"D","e","s","c","r","i","p","t","i","o","n",":"," ","R","e","t","r","i","e","v","e","s"," ","o","r"," ","c","a","l","c","u","l","a","t","e","s"," ","u","s","e","r"," ","n","a","m","e">>

StructureKnown == pc \in {"complexity", "done"}

\* C2: every field of the structure metrics analyze_code_structure returns
\* is >= 0, on the Python path, the C/C++ path and the generic path.
C2_FieldsNonNegative ==
    StructureKnown => \A f \in MetricFields : structure[f] >= 0

\* C3: calculate_maintainability_index returns a value between 0 and 100,
\* and exactly 100.0 when total_lines is 0.
C3_MaintainabilityBounds ==
    pc = "done" =>
        /\ 0 <= complexity.maintainability_index
        /\ complexity.maintainability_index <= 100 * MiScale
        /\ (structure.total_lines = 0 => complexity.maintainability_index = 100 * MiScale)

\* a record with positive ratios, whose formula value (above 100) was clamped
C3_Witness ==
    /\ pc = "done"
    /\ structure.total_lines > 0
    /\ ~log_raises(structure)
    /\ mi_formula(structure) > 100 * MiScale
    /\ complexity.maintainability_index = 100 * MiScale

\* C4: a file name with extension .json whose content is not valid JSON is
\* never labelled JSON; the label is the content heuristics' result.
C4_InvalidJsonFallsThrough ==
    (pc # "detect" /\ Lower(Suffix(filename)) = <<".","j","s","o","n">> /\ ~json_loads_ok(code)) =>
        /\ file_type # <<"J","S","O","N">>
        /\ file_type = content_rules(filename, code)

C4_Witness ==
    /\ pc # "detect"
    /\ filename = <<"c","o","n","f","i","g",".","j","s","o","n">>
    /\ code = <<"n","o","t"," ","v","a","l","i","d"," ","j","s","o","n">>
    /\ file_type = <<"U","n","k","n","o","w","n">>

\* C5: for the label Environment Variables the structure metrics are the
\* config-file analyzer's: variable_declarations counts the non-empty lines
\* with '=' not starting with '#', comment_lines the lines starting with '#'.
C5_EnvUsesConfigAnalyzer ==
    (StructureKnown /\ file_type = <<"E","n","v","i","r","o","n","m","e","n","t"," ","V","a","r","i","a","b","l","e","s">>) =>
        /\ structure.variable_declarations = CountIf(Split(code), EnvDeclLine)
        /\ structure.comment_lines = CountIf(Split(code), HashLine)

EmptyInput == filename = <<>> /\ code = <<>>
OtherFieldsZero == \A f \in MetricFields \ {"total_lines"} : structure[f] = 0

\* C6 as stated: empty content and no file name give total_lines = 1, every
\* other metric 0, cyclomatic complexity 1, maintainability index 100.0.
C6_EmptyInputAsStated ==
    (pc = "done" /\ EmptyInput) =>
        /\ structure.total_lines = 1
        /\ OtherFieldsZero
        /\ complexity.cyclomatic_complexity = 1
        /\ complexity.maintainability_index = 100 * MiScale

\* C6 amended: empty content and no file name give total_lines = 0, every
\* other metric 0, cyclomatic complexity 1, maintainability index 100.0.
C6_EmptyInput ==
    (pc = "done" /\ EmptyInput) =>
        /\ structure.total_lines = 0
        /\ OtherFieldsZero
        /\ complexity.cyclomatic_complexity = 1
        /\ complexity.maintainability_index = 100 * MiScale

C6_Witness ==
    /\ pc = "done"
    /\ EmptyInput
    /\ file_type = <<"U","n","k","n","o","w","n">>
    /\ complexity.maintainability_index = 100 * MiScale

\* the POST exchanges, and the requests that are a JSON object whose code
\* is a string of at most MaxCodeLen characters
PostExchanges == {e \in delivered : e.request.method = "POST"}
HasCode(request) ==
    get_json(request).type = "dict" /\ "code" \in DOMAIN get_json(request).items
PassesValidation(request) ==
    /\ is_json(request)
    /\ HasCode(request)
    /\ get_json(request).items["code"].type = "str"
    /\ PyLen(get_json(request).items["code"]) <= MaxCodeLen
AnalysisFields == {"language", "structure", "explanation", "documented_code"}
HasAnalysis(response) == AnalysisFields \subseteq DOMAIN response.body
Rejected(e, status) == e.response.status = status /\ ~e.analyzed

\* C7: two requests with the same (filename, code) receive the same
\* language, structure, explanation and documented_code, whatever the cache
\* holds and whatever was requested in between.
C7_SameInputSameAnalysis ==
    \A e1, e2 \in PostExchanges :
        ( /\ PassesValidation(e1.request)
          /\ PassesValidation(e2.request)
          /\ get_json(e1.request) = get_json(e2.request) ) =>
            /\ HasAnalysis(e1.response) <=> HasAnalysis(e2.response)
            /\ HasAnalysis(e1.response) => e1.response.body = e2.response.body

\* C8: every request that passes input validation is answered with all of
\* language, structure, explanation and documented_code.
C8_ValidRequestCarriesAllFields ==
    \A e \in PostExchanges :
        PassesValidation(e.request) => HasAnalysis(e.response)

\* C9: the analysis functions are called only for a JSON body whose code is
\* a string of at most 1,000,000 characters; a non-JSON body or a missing
\* code is answered 400, a non-string code 400, a longer code 413, each
\* without an analysis call.
C9_ValidationGate ==
    \A e \in PostExchanges :
        /\ e.analyzed => PassesValidation(e.request)
        /\ ~is_json(e.request) => Rejected(e, 400)
        /\ (is_json(e.request) /\ ~HasCode(e.request)) => Rejected(e, 400)
        /\ ( /\ is_json(e.request)
             /\ HasCode(e.request)
             /\ get_json(e.request).items["code"].type # "str" ) => Rejected(e, 400)
        /\ ( /\ is_json(e.request)
             /\ HasCode(e.request)
             /\ get_json(e.request).items["code"].type = "str"
             /\ PyLen(get_json(e.request).items["code"]) > MaxCodeLen ) => Rejected(e, 413)

Matched(table, content) ==
    {table[k].name : k \in {j \in 1..Len(table) : ContainsAny(content, table[j].patterns)}}
NoDuplicates(seq) == \A j, k \in 1..Len(seq) : seq[j] = seq[k] => j = k
Elements(seq) == {seq[k] : k \in 1..Len(seq)}

\* C10: is_ml_code holds exactly when some framework or operation category
\* matched; the lists hold each matched category once and no other; content
\* with "import tensorflow as tf" and "model.fit(x, y)" gives tensorflow and
\* training.
C10_MlDetection ==
    pc \notin {"detect", "ml"} =>
        /\ ml_info.is_ml_code <=>
               (Matched(ml_frameworks, code) # {} \/ Matched(ml_operations, code) # {})
        /\ NoDuplicates(ml_info.frameworks)
        /\ NoDuplicates(ml_info.operations)
        /\ Elements(ml_info.frameworks) = Matched(ml_frameworks, code)
        /\ Elements(ml_info.operations) = Matched(ml_operations, code)
        /\ (Contains(code, <<"i","m","p","o","r","t"," ","t","e","n","s","o","r","f","l","o","w"," ","a","s"," ","t","f">>) /\ Contains(code, <<"m","o","d","e","l",".","f","i","t","(","x",","," ","y",")">>)) =>
               /\ ml_info.is_ml_code
               /\ "tensorflow" \in Elements(ml_info.frameworks)
               /\ "training" \in Elements(ml_info.operations)

C10_Witness ==
    /\ pc = "done"
    /\ code = <<"i","m","p","o","r","t"," ","t","e","n","s","o","r","f","l","o","w"," ","a","s"," ","t","f","\n","m","o","d","e","l",".","f","i","t","(","x",","," ","y",")">>
    /\ ml_info = [is_ml_code |-> TRUE, frameworks |-> <<"tensorflow">>,
                  operations |-> <<"training">>]

FirstPrefix(name) ==
    {k \in 1..Len(prefixes) :
        /\ StartsWith(Lower(name), prefixes[k][1])
        /\ \A j \in 1..(k - 1) : ~StartsWith(Lower(name), prefixes[j][1])}
Meaning(k) == prefixes[k][2]
AfterPrefix(name, k) == SubSeq(name, Len(prefixes[k][1]) + 1, Len(name))
RemainingWords(name, k) == clean_words(AfterPrefix(name, k))
\* the description, alone or followed by the clauses drawn from the body
BeginsWith(text, description) ==
    \/ text = description
    \/ StartsWith(text, description \o <<" ","a","n","d"," ">>)

\* C11: the description is built from the first prefix, in table order, that
\* the lowercased name starts with: "{meaning} {remaining words}" with the
\* remaining words lowercased and space-joined, "{meaning} data" when the
\* remainder after the prefix is empty, and "Handles {name words}
\* functionality" when no prefix matches; get_user_name gives "Retrieves or
\* calculates user name".
C11_PurposeFromFirstPrefix ==
    pc = "done" /\ fn_purpose # <<>> =>
        /\ FirstPrefix(fn_name) = {} =>
               BeginsWith(fn_purpose,
                          <<"H","a","n","d","l","e","s"," ">> \o clean_words(fn_name) \o <<" ","f","u","n","c","t","i","o","n","a","l","i","t","y">>)
        /\ \A k \in FirstPrefix(fn_name) :
               IF Strip(AfterPrefix(fn_name, k)) = <<>>
               THEN BeginsWith(fn_purpose, Meaning(k) \o <<" ","d","a","t","a">>)
               ELSE BeginsWith(fn_purpose, Meaning(k) \o <<" ">> \o RemainingWords(fn_name, k))
        /\ fn_name = <<"g","e","t","_","u","s","e","r","_","n","a","m","e">> =>
               BeginsWith(fn_purpose, <<"R","e","t","r","i","e","v","e","s"," ","o","r"," ","c","a","l","c","u","l","a","t","e","s"," ","u","s","e","r"," ","n","a","m","e">>)

C11_Witness ==
    /\ pc = "done"
    /\ fn_name = <<"g","e","t","_","u","s","e","r","_","n","a","m","e">>
    /\ fn_content = <<>>
    /\ fn_purpose = <<"R","e","t","r","i","e","v","e","s"," ","o","r"," ","c","a","l","c","u","l","a","t","e","s"," ","u","s","e","r"," ","n","a","m","e">>

\* C11 as stated: "{meaning} data" whenever no word remains after the prefix
C11_DataWhenNoWordRemains ==
    pc = "done" /\ fn_purpose # <<>> =>
        \A k \in FirstPrefix(fn_name) :
            RemainingWords(fn_name, k) = <<>> =>
                BeginsWith(fn_purpose, Meaning(k) \o <<" ","d","a","t","a">>)

\* the rules in the stated order, each with its label and whether it is satisfied
NameIs(names) == filename # <<>> /\ Lower(filename) \in names
ExtIs(exts) == filename # <<>> /\ Lower(Suffix(filename)) \in exts
Plausible(parts) == filename # <<>> => \E p \in parts : Contains(Lower(filename), p)
RulesInOrder ==
    << <<<<"E","n","v","i","r","o","n","m","e","n","t"," ","V","a","r","i","a","b","l","e","s">>,
         filename # <<>> /\ (Lower(filename) = <<".","e","n","v">> \/ StartsWith(Lower(filename), <<".","e","n","v",".">>))>>,
       <<<<"I","g","n","o","r","e"," ","F","i","l","e">>, NameIs({<<".","g","i","t","i","g","n","o","r","e">>, <<".","d","o","c","k","e","r","i","g","n","o","r","e">>})>>,
       <<<<"T","y","p","e","S","c","r","i","p","t"," ","R","e","a","c","t">>, ExtIs({<<".","t","s","x">>})>>,
       <<<<"T","y","p","e","S","c","r","i","p","t">>, ExtIs({<<".","t","s">>})>>,
       <<<<"J","a","v","a","S","c","r","i","p","t"," ","R","e","a","c","t">>, ExtIs({<<".","j","s","x">>})>>,
       <<<<"J","S","O","N">>, ExtIs({<<".","j","s","o","n">>}) /\ json_loads_ok(code)>>,
       <<<<"Y","A","M","L">>, ExtIs({<<".","y","m","l">>, <<".","y","a","m","l">>})>>,
       <<<<"X","M","L">>, ExtIs({<<".","x","m","l">>})>>,
       <<<<"T","O","M","L">>, ExtIs({<<".","t","o","m","l">>})>>,
       <<<<"C","o","n","f","i","g","u","r","a","t","i","o","n"," ","F","i","l","e">>, ExtIs({<<".","i","n","i">>, <<".","c","f","g">>, <<".","c","o","n","f","i","g">>})>>,
       <<<<"M","a","r","k","d","o","w","n">>, ExtIs({<<".","m","d">>, <<".","m","a","r","k","d","o","w","n">>})>>,
       <<<<"J","a","v","a">>, Contains(code, <<"p","u","b","l","i","c"," ","c","l","a","s","s"," ">>) /\ Plausible({<<".","j","a","v","a">>})>>,
       <<<<"P","y","t","h","o","n">>, Contains(code, <<"d","e","f"," ">>) /\ Plausible({<<".","p","y">>})>>,
       <<<<"J","a","v","a","S","c","r","i","p","t">>, Contains(code, <<"f","u","n","c","t","i","o","n"," ">>) /\ Plausible({<<".","j","s">>})>>,
       <<<<"C">>, Contains(code, <<"#","i","n","c","l","u","d","e">>) /\ Plausible({<<".","c">>, <<".","h">>})>>,
       <<<<"P","H","P">>, Contains(code, <<"<","?","p","h","p">>)>>,
       <<<<"G","o">>, Contains(code, <<"p","a","c","k","a","g","e"," ">>) /\ Plausible({<<".","g","o">>})>>,
       <<<<"R","u","s","t">>, Contains(code, <<"f","n"," ">>) /\ Plausible({<<".","r","s">>})>> >>
SatisfiedRules == {k \in 1..Len(RulesInOrder) : RulesInOrder[k][2]}

\* C12: the label is that of the first satisfied rule in the order dotfile
\* names, extension table, content heuristics Java, Python, JavaScript, C,
\* PHP, Go, Rust; no later rule overrides an earlier satisfied one: '.env.ts'
\* is Environment Variables, 'a.ts' containing 'def ' is TypeScript, and
\* without a file name content with 'def ' and 'function ' (and no
\* 'public class ') is Python.
C12_FirstSatisfiedRuleWins ==
    pc = "ml" =>
        /\ LET rules == RulesInOrder
               first == {k \in 1..Len(rules) :
                            rules[k][2] /\ \A j \in 1..(k - 1) : ~rules[j][2]}
           IN  \A k \in first : file_type = rules[k][1]
        /\ filename = <<".","e","n","v",".","t","s">> => file_type = <<"E","n","v","i","r","o","n","m","e","n","t"," ","V","a","r","i","a","b","l","e","s">>
        /\ (filename = <<"a",".","t","s">> /\ Contains(code, <<"d","e","f"," ">>)) => file_type = <<"T","y","p","e","S","c","r","i","p","t">>
        /\ (/\ filename = <<>>
            /\ Contains(code, <<"d","e","f"," ">>) /\ Contains(code, <<"f","u","n","c","t","i","o","n"," ">>)
            /\ ~Contains(code, <<"p","u","b","l","i","c"," ","c","l","a","s","s"," ">>)) =>
               file_type = <<"P","y","t","h","o","n">>

C12_Witness ==
    /\ pc = "ml"
    /\ filename = <<>>
    /\ code = <<"f","u","n","c","t","i","o","n"," ","f","(",")"," ","{","}","\n","d","e","f"," ","f","(","x",")",":"," ","r","e","t","u","r","n"," ","x">>
    /\ Cardinality(SatisfiedRules) = 2
    /\ file_type = <<"P","y","t","h","o","n">>

\* the languages of the content heuristics, each with the file name parts
\* that make it plausible
ContentLanguages ==
    { <<<<"J","a","v","a">>, {<<".","j","a","v","a">>}>>, <<<<"P","y","t","h","o","n">>, {<<".","p","y">>}>>,
      <<<<"J","a","v","a","S","c","r","i","p","t">>, {<<".","j","s">>}>>, <<<<"C">>, {<<".","c">>, <<".","h">>}>>,
      <<<<"P","H","P">>, {<<".","p","h","p">>}>>, <<<<"G","o">>, {<<".","g","o">>}>>, <<<<"R","u","s","t">>, {<<".","r","s">>}>> }

\* C13: with a file name present, a content heuristic's language is returned
\* only if the file name is plausible for that language.
C13_ContentRulesGatedByFilename ==
    (pc = "ml" /\ filename # <<>>) =>
        \A lang \in ContentLanguages : file_type = lang[1] => Plausible(lang[2])

\* the labels the secondary heuristics would give
NoRuleSatisfied == SatisfiedRules = {}
ControlFlowKeywords == {<<"i","f">>, <<"f","o","r">>, <<"w","h","i","l","e">>}
ReactLabels == {<<"T","y","p","e","S","c","r","i","p","t"," ","R","e","a","c","t">>, <<"J","a","v","a","S","c","r","i","p","t"," ","R","e","a","c","t">>}

\* C14: when no file name, extension or content rule is satisfied, content
\* with '=' and no control-flow keyword is labelled Environment Variables and
\* content with a React import is labelled a React variant; only otherwise is
\* the label Unknown.
C14_SecondaryHeuristics ==
    (pc = "ml" /\ NoRuleSatisfied) =>
        /\ (Contains(code, <<"=">>) /\ ~ContainsAny(code, ControlFlowKeywords)) =>
               file_type = <<"E","n","v","i","r","o","n","m","e","n","t"," ","V","a","r","i","a","b","l","e","s">>
        /\ (~Contains(code, <<"=">>) /\ Contains(code, <<"i","m","p","o","r","t"," ","R","e","a","c","t">>)) =>
               file_type \in ReactLabels

\* the nesting counter after a line under the three rules applied
\* independently, in either order of the '}' rule and the keyword rule
NestingAfter(line, level) ==
    LET closes == Contains(line, <<"}">>)
        nests == ContainsAny(line, NestingKeywords)
    IN  IF closes /\ nests THEN {Max(0, level - 1) + 1, Max(0, (level + 1) - 1)}
        ELSE IF closes THEN {Max(0, level - 1)}
        ELSE IF nests THEN {level + 1}
        ELSE {level}
\* the score a line adds: 1 + the nesting the keyword rule sees, and 1 for a
\* flow keyword
ScoreAdded(line, level) ==
    LET closes == Contains(line, <<"}">>)
        nests == ContainsAny(line, NestingKeywords)
        flow == IF ContainsAny(line, FlowKeywords) THEN 1 ELSE 0
    IN  IF nests /\ closes THEN {1 + level + flow, 1 + Max(0, level - 1) + flow}
        ELSE IF nests THEN {1 + level + flow}
        ELSE {flow}

\* C15: on every line the '}' rule, the nesting-keyword rule and the
\* flow-keyword rule apply independently, so a line with both '}' and a nesting
\* keyword decrements and increments the nesting counter; the counter and the
\* score are never negative.
C15_RulesApplyIndependently ==
    [][line_no' = line_no + 1 =>
           /\ nesting' \in NestingAfter(Splitlines(code)[line_no'], nesting)
           /\ cognitive' - cognitive \in ScoreAdded(Splitlines(code)[line_no'], nesting)
           /\ nesting' >= 0 /\ cognitive' >= 0]_vars

\* the positions in documented_lines of the original lines, in order
OriginalPositions(entries) ==
    SelectSeq([k \in 1..Len(entries) |-> k], LAMBDA k : ~entries[k].inserted)
IsImportAnnotation(entry) ==
    /\ entry.inserted
    /\ entry.text = comment_syntax(file_type).single_line \o <<" ","I","m","p","o","r","t","s"," ","r","e","q","u","i","r","e","d"," ","m","o","d","u","l","e","s">>
\* original line n is an import line; it starts a run of import lines
ImportAt(lines, n) == IsImportLine(Strip(lines[n]))
StartsImportRun(lines, n) == ImportAt(lines, n) /\ (n = 1 \/ ~ImportAt(lines, n - 1))
\* the entry just before original line n is the import annotation
AnnotatedImport(entries, n) ==
    LET pos == OriginalPositions(entries)[n]
    IN  pos > 1 /\ IsImportAnnotation(entries[pos - 1])

\* C16: for a programming-language label, an import line is preceded by the
\* "Imports required modules" annotation exactly when it is the first
\* original line or the original line before it is not an import line, so
\* each maximal run of import lines has one annotation, before its first line.
C16_OneAnnotationPerImportRun ==
    (pc = "returned" /\ file_type \notin ConfigLabels) =>
        LET lines == Split(code)
        IN  /\ \A n \in 1..Len(lines) :
                   ImportAt(lines, n) =>
                       (AnnotatedImport(documented_lines, n) <=> StartsImportRun(lines, n))
            /\ Cardinality({k \in 1..Len(documented_lines) :
                               IsImportAnnotation(documented_lines[k])})
                   = Cardinality({n \in 1..Len(lines) : StartsImportRun(lines, n)})

\* two consecutive import lines returned with a single annotation
C16_Witness ==
    /\ pc = "returned"
    /\ file_type = <<"P","y","t","h","o","n">>
    /\ code = <<"i","m","p","o","r","t"," ","o","s","\n","i","m","p","o","r","t"," ","o","s">>
    /\ Cardinality({k \in 1..Len(documented_lines) :
                       IsImportAnnotation(documented_lines[k])}) = 1
    /\ AnnotatedImport(documented_lines, 1)
    /\ ~AnnotatedImport(documented_lines, 2)

\* '{' minus '}' over original lines first..n, each line counted once
RECURSIVE Balance(_, _, _)
Balance(lines, first, n) ==
    IF n < first THEN 0 ELSE Balance(lines, first, n - 1) + BraceDelta(lines[n])
\* the line on which the balance is no longer > 0, or the last line
BalancedAt(lines, first) ==
    LET closed == {n \in first..Len(lines) : Balance(lines, first, n) <= 0}
    IN  IF closed = {} THEN Len(lines) ELSE MinOf(closed)

\* C17: for a non-Python label and a definition line with '{', the body is
\* the definition line and the following lines up to the line on which the
\* balance of '{' minus '}', counted once per line from the definition line
\* on, returns to 0, and no later line.
C17_BodyEndsWhereBalanceReturnsToZero ==
    (pc = "done" /\ Contains(LineAt(Split(code), i), <<"{">>)) =>
        body_lines = SubSeq(Split(code), i + 1, BalancedAt(Split(code), i + 1))

CountedFields ==
    {"import_statements", "function_definitions", "class_definitions",
     "variable_declarations", "loops", "conditionals"}

\* C18: with the label Python and content that does not parse, the import,
\* function, class, variable, loop and conditional counts returned are the
\* generic path's counts for that content.
C18_UnparsablePythonGetsGenericCounts ==
    (StructureKnown /\ file_type = <<"P","y","t","h","o","n">> /\ ~ast_parse_ok(code)) =>
        \A f \in CountedFields : structure[f] = generic_structure(code)[f]

ComplexityCount(s) == s.loops + s.conditionals + s.function_definitions

\* C19: calculate_maintainability_index always returns a number; with
\* total_lines > 0 and a comment ratio or complexity-per-line ratio that is
\* zero or negative, the logarithm's domain error is caught and the result is
\* exactly 0.0.
C19_DomainErrorGivesZero ==
    pc = "done" =>
        /\ complexity.maintainability_index \in 0..(100 * MiScale)
        /\ (/\ structure.total_lines > 0
            /\ (structure.comment_lines <= 0 \/ ComplexityCount(structure) <= 0)) =>
               complexity.maintainability_index = 0

\* lines without a comment: the comment ratio is 0 and the result 0.0
C19_Witness ==
    /\ pc = "done"
    /\ structure.total_lines = MaxCount
    /\ structure.comment_lines = 0
    /\ ComplexityCount(structure) > 0
    /\ complexity.maintainability_index = 0

MinTimestamp(entries) ==
    CHOOSE t \in {entries[k].timestamp : k \in 1..Len(entries)} :
        \A k \in 1..Len(entries) : t <= entries[k].timestamp
\* the entries a step removed from the cache
Removed(before, after) ==
    {before[k] : k \in {j \in 1..Len(before) : \A m \in 1..Len(after) : after[m].key # before[j].key}}

\* C20: with concurrent requests interleaved at each read and write of the
\* cache, whenever no request is in flight the cache holds at most CacheLimit
\* entries; each eviction removes an entry with the minimum timestamp; and no
\* request fails in the eviction step.
C20_ConcurrentEviction ==
    /\ [](Quiescent => Len(cache) <= CacheLimit)
    /\ [](\A w \in DOMAIN workers : workers[w].pc # "failed at pop")
    /\ [][\A entry \in Removed(cache, cache') : entry.timestamp = MinTimestamp(cache)]_vars

\* the entries stored for a request body, and whether one is younger than
\* Expire seconds
StoredAt(key) == {k \in 1..Len(cache) : cache[k].key = key}
FreshEntry(key) == \E k \in StoredAt(key) : now - cache[k].timestamp < Expire
\* the exchange of a request answered from the cache / by the handler chain
ServedFromCache(request, response) ==
    [request |-> request, response |-> response, analyzed |-> FALSE]
HandlerResponse(request) == handle_errors(validated[request]).response

ErrorStatuses == {400, 413, 500}
\* the fresh entries stored for a request body that hold an error response
FreshErrorAt(key) ==
    {k \in StoredAt(key) :
        now - cache[k].timestamp < Expire /\ cache[k].result.status \in ErrorStatuses}

ScanningFunctionLine ==
    /\ pc = "scan"
    /\ i < Len(Split(code))
    /\ line_branch(LineAt(Split(code), i)) = "function"

\* C23: the line scan terminates; each iteration moves the scan index forward
\* by exactly one line, so the scan ends with the index at len(lines); the
\* body extraction of a function line stops at or before the last line and
\* leaves the scan index alone, so body lines are visited one by one.
C23_ScanTerminates ==
    /\ <>(pc = "returned")
    /\ [][(pc = "scan" /\ pc' = "scan") => i' = i + 1]_vars
    /\ []((pc = "returned" /\ file_type \notin ConfigLabels) => i = Len(Split(code)))
    /\ [](ScanningFunctionLine =>
              function_body_end(Split(code), i, file_type) \in (i + 1)..Len(Split(code)))

\* a Python function whose body reaches the last line: the scan has visited
\* the body line after the definition line and ended at len(lines)
C23_Witness ==
    /\ pc = "returned"
    /\ file_type = <<"P","y","t","h","o","n">>
    /\ code = <<"d","e","f"," ","g","e","t","_","u","s","e","r","_","n","a","m","e","(","i","d",")",":","\n"," "," "," "," ","r","e","t","u","r","n"," ","n","a","m","e">>
    /\ function_body_end(Split(code), 0, file_type) = 2
    /\ i = 2
    /\ Texts(SelectSeq(documented_lines, LAMBDA entry : ~entry.inserted)) = Split(code)

=============================================================================
